---- MODULE Spec2Model ----
(***************************************************************************)
(* A model of codedna's structural / dependency graph engine:              *)
(*   - dependency.Graph and its mutation path (AddNode, AddDependency),    *)
(*   - the graph queries (cycle detection, indirect traversal, external    *)
(*     discovery),                                                         *)
(*   - the Go dependency analyzer (Analyze, Merge),                        *)
(*   - the Go structure analyzer (Analyze, pattern detection, Merge).      *)
(***************************************************************************)
EXTENDS Integers, Sequences, FiniteSets, TLC

VARIABLES
    graph,        \* the dependency.Graph under query; the first analyzer's graph
    cycleRes,     \* result of the last FindCircularDependencies call
    prevCycleRes, \* result of the call before it, same graph
    indRes,       \* result of the last Dependencies/indirect_from call
    extRes,       \* result of the last ExternalDependencies calls
    tree,         \* the syntax tree the front end is building / has built
    built,        \* nodes of the trees built before this one (SpecDependency: units started)
    analysis,     \* the Analysis returned by the last structure Analyze
    goAnalysis,   \* the combined Analysis the results are merged into
    runs,         \* number of Analyze calls made so far
    merges,       \* number of Merge calls made so far
    cursor,       \* position in the unit's declaration list the front end has reached
    analyzeRes,   \* outcome of the last dependency Analyze on the analyzer owning graph
    otherAnalyzer, \* a second dependency analyzer: the outcome and graph of its last Analyze
    metrics       \* the metrics a MetricsCollector holds after CollectMetrics

graphVars == <<graph, cycleRes, prevCycleRes, indRes, extRes>>
structVars == <<tree, built, analysis, goAnalysis, runs, merges, cursor, metrics>>
depVars == <<analyzeRes, otherAnalyzer>>
vars == <<graph, cycleRes, prevCycleRes, indRes, extRes, tree, built, analysis, goAnalysis, runs, merges, cursor,
          analyzeRes, otherAnalyzer, metrics>>

\* A result variable before the query has been called.
NoRes == [called |-> FALSE]

(***************************************************************************)
(* Generic helpers.                                                        *)
(***************************************************************************)

Reverse(s) == [i \in 1..Len(s) |-> s[Len(s) + 1 - i]]

InSeq(x, s) == \E i \in 1..Len(s) : s[i] = x

\* All orders in which a Go map with key set S may be iterated.
Perms(S) == {p \in [1..Cardinality(S) -> S] : \A a \in S : \E i \in 1..Cardinality(S) : p[i] = a}

(***************************************************************************)
(* Bounds of the graph model.                                              *)
(***************************************************************************)
MaxGraphEdges == 4   \* edges of a graph handed to find_cycles
MaxCycleNodes == 4   \* modules of a drawn graph handed to find_cycles
MaxTravEdges == 3    \* edges of a graph handed to the traversals
MaxQueryDepth == 2   \* largest configured max_depth

\* Node ids of the queried graphs ("A" < "B" < "C" as 1 < 2 < 3, the order
\* in which Go compares the id strings).
GraphIds == {1, 2, 3}

(***************************************************************************)
(* dependency.Graph: nodes keyed by id, the ordered edge list and the      *)
(* derived indexes.  Nodes is a function from the ids present to Node      *)
(* records; ExternalDependencies is the key set of the Go map.             *)
(***************************************************************************)
Include == "include"
Reference == "reference"
Satisfy == "satisfy"
Compose == "compose"
Inherit == "inherit"

ModuleNode == "module"
TypeNode == "type"
FunctionNode == "function"
ContractNode == "contract"
VariableNode == "variable"

NewGraph ==
    [Nodes |-> <<>>,
     Dependencies |-> <<>>,
     DirectDependencies |-> <<>>,
     IndirectDependencies |-> <<>>,
     ExternalDependencies |-> {},
     CircularDependencies |-> <<>>]

HasNode(g, id) == id \in DOMAIN g.Nodes

\* g.Nodes[node.ID] = node
AddNode(g, node) ==
    [g EXCEPT !.Nodes = [i \in (DOMAIN g.Nodes) \cup {node.ID} |->
                            IF i = node.ID THEN node ELSE g.Nodes[i]]]

\* Appends the edge; an external edge whose target exists is indexed in
\* ExternalDependencies, a non-external include edge in DirectDependencies.
AddDependency(g, dep) ==
    LET g1 == [g EXCEPT !.Dependencies = Append(@, dep)]
    IN  IF dep.IsExternal
        THEN IF HasNode(g1, dep.To)
             THEN [g1 EXCEPT !.ExternalDependencies = @ \cup {dep.To}]
             ELSE g1
        ELSE IF dep.Type = Include
             THEN [g1 EXCEPT !.DirectDependencies = Append(@, dep)]
             ELSE g1

\* Edges whose From is nodeID, in list order.
DependenciesFrom(g, nodeID) ==
    SelectSeq(g.Dependencies, LAMBDA d : d.From = nodeID)

(***************************************************************************)
(* Cycle detection (find_cycles).                                          *)
(***************************************************************************)
\* Lexicographic order on sequences of node ids.
RECURSIVE LexLeq(_, _)
LexLeq(a, b) ==
    IF Len(a) = 0 THEN TRUE
    ELSE IF Len(b) = 0 THEN FALSE
    ELSE IF a[1] < b[1] THEN TRUE
    ELSE IF a[1] > b[1] THEN FALSE
    ELSE LexLeq(Tail(a), Tail(b))

\* The ring c read from position k.
Rotation(c, k) == [i \in 1..Len(c) |-> c[((i + k - 2) % Len(c)) + 1]]

Rotations(c) == {Rotation(c, k) : k \in 1..Len(c)}

MutNormalizeCycle(c) == c

\* The lexicographically smallest rotation of the ring.
NormalizeCycle(c) ==
    CHOOSE r \in Rotations(c) : \A r2 \in Rotations(c) : LexLeq(r, r2)

\* The normalized sequence joined into one key; 0 stands for the separator.
RECURSIVE CycleKey(_)
CycleKey(c) ==
    IF Len(c) = 0 THEN <<>>
    ELSE IF Len(c) = 1 THEN <<c[1]>>
    ELSE <<c[1], 0>> \o CycleKey(Tail(c))

\* Position of the first occurrence of x in path.
FirstIndex(x, path) == CHOOSE i \in 1..Len(path) : path[i] = x /\ \A j \in 1..(i-1) : path[j] # x

MutRecordCycle(st, cyc) ==
    [st EXCEPT !.cycles = Append(@, NormalizeCycle(cyc))]

\* Normalize, then keep the cycle only if its key is new.
RecordCycle(st, cyc) ==
    LET norm == NormalizeCycle(cyc)
        key == CycleKey(norm)
    IN  IF key \in st.seen THEN st
        ELSE [st EXCEPT !.seen = @ \cup {key}, !.cycles = Append(@, norm)]

\* DFS with a current-path stack.  st = [visited, seen, cycles].
RECURSIVE CycleVisit(_, _, _, _), CycleEdges(_, _, _, _, _)
CycleVisit(g, node, path, st) ==
    CycleEdges(g, node, Append(path, node), 1,
               [st EXCEPT !.visited = @ \cup {node}])

\* The path marks are never cleared: every visited node counts as on the path.
MutCycleEdges(g, node, path, i, st) ==
    IF i > Len(g.Dependencies) THEN st
    ELSE LET dep == g.Dependencies[i] IN
         IF dep.From # node THEN CycleEdges(g, node, path, i + 1, st)
         ELSE IF InSeq(dep.To, path)
              THEN CycleEdges(g, node, path, i + 1,
                       RecordCycle(st, SubSeq(path, FirstIndex(dep.To, path), Len(path))))
         ELSE IF dep.To \in st.visited
              THEN CycleEdges(g, node, path, i + 1, RecordCycle(st, path))
         ELSE CycleEdges(g, node, path, i + 1, CycleVisit(g, dep.To, path, st))

CycleEdges(g, node, path, i, st) ==
    IF i > Len(g.Dependencies) THEN st
    ELSE LET dep == g.Dependencies[i] IN
         IF dep.From # node THEN CycleEdges(g, node, path, i + 1, st)
         ELSE IF InSeq(dep.To, path)
              THEN CycleEdges(g, node, path, i + 1,
                       RecordCycle(st, SubSeq(path, FirstIndex(dep.To, path), Len(path))))
         ELSE IF dep.To \in st.visited
              THEN CycleEdges(g, node, path, i + 1, st)
         ELSE CycleEdges(g, node, path, i + 1, CycleVisit(g, dep.To, path, st))

\* DFS from every unvisited node, in the given iteration order of g.Nodes.
RECURSIVE CycleRoots(_, _, _, _)
CycleRoots(g, order, i, st) ==
    IF i > Len(order) THEN st
    ELSE IF order[i] \in st.visited THEN CycleRoots(g, order, i + 1, st)
    ELSE CycleRoots(g, order, i + 1, CycleVisit(g, order[i], <<>>, st))

FindCircularDependencies(g, order) ==
    CycleRoots(g, order, 1, [visited |-> {}, seen |-> {}, cycles |-> <<>>]).cycles

(***************************************************************************)
(* Indirect traversal (indirect_from) and Analyzer.Dependencies.           *)
(* st = [visited, result, calls]; calls counts the DFS invocations.        *)
(***************************************************************************)
RECURSIVE IndirectVisit(_, _, _, _), IndirectEdges(_, _, _, _, _)

IndirectVisit(g, node, depth, st) ==
    IF depth <= 0 THEN [st EXCEPT !.calls = @ + 1]
    ELSE IndirectEdges(g, node, depth, 1, [st EXCEPT !.calls = @ + 1])

IndirectEdges(g, node, depth, i, st) ==
    IF i > Len(g.Dependencies) THEN st
    ELSE LET dep == g.Dependencies[i] IN
         IF dep.From # node \/ dep.To \in st.visited
         THEN IndirectEdges(g, node, depth, i + 1, st)
         ELSE IndirectEdges(g, node, depth, i + 1,
                  IndirectVisit(g, dep.To, depth - 1,
                      [st EXCEPT !.visited = @ \cup {dep.To},
                                 !.result = Append(@, dep)]))

\* Depth-bounded DFS with a single visited set seeded with the start id.
IndirectRun(g, nodeID, maxDepth) ==
    IndirectVisit(g, nodeID, maxDepth,
                  [visited |-> {nodeID}, result |-> <<>>, calls |-> 0])

IndirectDependenciesFrom(g, nodeID, maxDepth) == IndirectRun(g, nodeID, maxDepth).result

NewConfig == [IncludeIndirect |-> TRUE, AnalyzeExternal |-> TRUE, MaxDepth |-> 10]

\* Analyzer.Dependencies: the direct edges, then the indirect ones if enabled.
Dependencies(g, config, nodeID) ==
    IF config.IncludeIndirect
    THEN DependenciesFrom(g, nodeID) \o IndirectDependenciesFrom(g, nodeID, config.MaxDepth)
    ELSE DependenciesFrom(g, nodeID)

(***************************************************************************)
(* External-dependency discovery.                                          *)
(* st = [result, processed].                                               *)
(***************************************************************************)
\* Direct pass: all nodes flagged external.
ExternalNodes(g) == {id \in DOMAIN g.Nodes : g.Nodes[id].IsExternal}

RECURSIVE ExternalVisit(_, _, _, _), ExternalEdges(_, _, _, _, _)
ExternalVisit(g, node, depth, st) ==
    IF depth <= 0 \/ node \in st.processed THEN st
    ELSE ExternalEdges(g, node, depth, 1, [st EXCEPT !.processed = @ \cup {node}])

ExternalEdges(g, node, depth, i, st) ==
    IF i > Len(g.Dependencies) THEN st
    ELSE LET dep == g.Dependencies[i] IN
         IF dep.From # node THEN ExternalEdges(g, node, depth, i + 1, st)
         ELSE LET st1 == IF HasNode(g, dep.To) /\ g.Nodes[dep.To].IsExternal
                         THEN [st EXCEPT !.result = @ \cup {dep.To}]
                         ELSE st
              IN ExternalEdges(g, node, depth, i + 1,
                               ExternalVisit(g, dep.To, depth - 1, st1))

RECURSIVE ExternalRoots(_, _, _, _, _)
ExternalRoots(g, order, depth, i, st) ==
    IF i > Len(order) THEN st
    ELSE ExternalRoots(g, order, depth, i + 1, ExternalVisit(g, order[i], depth, st))

MutExternalNodesRecursive(g, maxDepth, order) ==
    ExternalRoots(g, order, maxDepth, 1, [result |-> {}, processed |-> {}]).result

\* Recursive variant: walk outgoing edges from the known external nodes.
ExternalNodesRecursive(g, maxDepth, order) ==
    ExternalRoots(g, order, maxDepth, 1,
                  [result |-> ExternalNodes(g), processed |-> {}]).result

\* Analyzer.ExternalDependencies
ExternalDependencies(g, config, order) ==
    IF config.AnalyzeExternal
    THEN ExternalNodesRecursive(g, config.MaxDepth, order)
    ELSE ExternalNodes(g)

(***************************************************************************)
(* SpecCycles: a client builds a graph with AddNode / AddDependency and    *)
(* calls FindCircularDependencies; cycleRes is the list the last call      *)
(* returned (with the node the map iteration started from), prevCycleRes   *)
(* the list of the call before it on the same graph.  The queries read the *)
(* graph only, so the client is modelled as building first, then querying. *)
(***************************************************************************)
ModuleRec(id, ext) ==
    [ID |-> id, Type |-> ModuleNode, Name |-> id, Path |-> id,
     IsExternal |-> ext, Metadata |-> <<>>]

IncludeDep(f, t) == [From |-> f, To |-> t, Type |-> Include, IsExternal |-> FALSE]

InitGraph ==
    /\ graph = NewGraph
    /\ cycleRes = NoRes
    /\ prevCycleRes = NoRes
    /\ indRes = NoRes
    /\ extRes = NoRes
    /\ tree = <<>>
    /\ built = 0
    /\ analysis = NoRes
    /\ goAnalysis = NoRes
    /\ runs = 0
    /\ merges = 0
    /\ cursor = 0
    /\ analyzeRes = NoRes
    /\ otherAnalyzer = NoRes
    /\ metrics = NoRes

CAddNode ==
    /\ ~cycleRes.called
    /\ Cardinality(DOMAIN graph.Nodes) < Cardinality(GraphIds)
    /\ graph' = AddNode(graph, ModuleRec(Cardinality(DOMAIN graph.Nodes) + 1, FALSE))
    /\ cycleRes' = NoRes
    /\ prevCycleRes' = NoRes
    /\ UNCHANGED <<depVars, indRes, extRes, structVars>>

CAddDependency ==
    /\ ~cycleRes.called
    /\ Len(graph.Dependencies) < MaxGraphEdges
    /\ \E f \in DOMAIN graph.Nodes, t \in DOMAIN graph.Nodes :
          graph' = AddDependency(graph, IncludeDep(f, t))
    /\ cycleRes' = NoRes
    /\ prevCycleRes' = NoRes
    /\ UNCHANGED <<depVars, indRes, extRes, structVars>>

CFindCycles ==
    /\ ~prevCycleRes.called
    /\ DOMAIN graph.Nodes # {}
    /\ \E order \in Perms(DOMAIN graph.Nodes) :
          cycleRes' = [called |-> TRUE, start |-> order[1],
                       cycles |-> FindCircularDependencies(graph, order)]
    /\ prevCycleRes' = IF cycleRes.called
                       THEN [called |-> TRUE, cycles |-> cycleRes.cycles]
                       ELSE NoRes
    /\ UNCHANGED <<depVars, graph, indRes, extRes, structVars>>

NextCycles == CAddNode \/ CAddDependency \/ CFindCycles

SpecCycles == InitGraph /\ [][NextCycles]_vars

(***************************************************************************)
(* FindCircularDependencies as a function of the graph: the graph is drawn *)
(* with MaxCycleNodes modules and any list of at most MaxGraphEdges        *)
(* include edges between distinct modules (SpecCycles has the self-loops), *)
(* and the query is made once.                                             *)
(***************************************************************************)
InitDrawnGraph ==
    /\ \E es \in UNION {[1..k -> {p \in (1..MaxCycleNodes) \X (1..MaxCycleNodes) :
                                        p[1] # p[2]}] : k \in 0..MaxGraphEdges} :
          LET nodes[k \in 0..MaxCycleNodes] ==
                  IF k = 0 THEN NewGraph
                  ELSE AddNode(nodes[k - 1], ModuleRec(k, FALSE))
              edges[k \in 0..Len(es)] ==
                  IF k = 0 THEN nodes[MaxCycleNodes]
                  ELSE AddDependency(edges[k - 1], IncludeDep(es[k][1], es[k][2]))
          IN  graph = edges[Len(es)]
    /\ cycleRes = NoRes
    /\ prevCycleRes = NoRes
    /\ indRes = NoRes
    /\ extRes = NoRes
    /\ tree = <<>>
    /\ built = 0
    /\ analysis = NoRes
    /\ goAnalysis = NoRes
    /\ runs = 0
    /\ merges = 0
    /\ cursor = 0
    /\ analyzeRes = NoRes
    /\ otherAnalyzer = NoRes
    /\ metrics = NoRes

GFindCycles ==
    /\ ~cycleRes.called
    /\ \E order \in Perms(DOMAIN graph.Nodes) :
          cycleRes' = [called |-> TRUE, start |-> order[1],
                       cycles |-> FindCircularDependencies(graph, order)]
    /\ UNCHANGED <<depVars, graph, prevCycleRes, indRes, extRes, structVars>>

NextDrawnGraph == GFindCycles

SpecDrawnGraph == InitDrawnGraph /\ [][NextDrawnGraph]_vars

(***************************************************************************)
(* SpecTraverse: a client builds a graph and runs the depth-bounded        *)
(* queries with a configured max_depth.                                    *)
(***************************************************************************)
ConfigWithDepth(d) == [NewConfig EXCEPT !.MaxDepth = d]

TAddNode ==
    /\ ~indRes.called /\ ~extRes.called
    /\ Cardinality(DOMAIN graph.Nodes) < Cardinality(GraphIds)
    /\ \E ext \in BOOLEAN :
          graph' = AddNode(graph, ModuleRec(Cardinality(DOMAIN graph.Nodes) + 1, ext))
    /\ indRes' = NoRes
    /\ extRes' = NoRes
    /\ UNCHANGED <<depVars, cycleRes, prevCycleRes, structVars>>

TAddDependency ==
    /\ ~indRes.called /\ ~extRes.called
    /\ Len(graph.Dependencies) < MaxTravEdges
    /\ \E f \in GraphIds, t \in GraphIds, ext \in BOOLEAN :
          graph' = AddDependency(graph, [IncludeDep(f, t) EXCEPT !.IsExternal = ext])
    /\ indRes' = NoRes
    /\ extRes' = NoRes
    /\ UNCHANGED <<depVars, cycleRes, prevCycleRes, structVars>>

\* indirect_from(id, d)
TIndirect ==
    /\ ~indRes.called /\ ~extRes.called
    /\ \E id \in GraphIds, d \in 0..MaxQueryDepth :
          LET run == IndirectRun(graph, id, d)
          IN indRes' = [called |-> TRUE, id |-> id, depth |-> d, result |-> run.result, calls |-> run.calls]
    /\ extRes' = NoRes
    /\ UNCHANGED <<depVars, graph, cycleRes, prevCycleRes, structVars>>

\* external_dependencies at depth d and, on the same graph, at depth d + 1
TExternal ==
    /\ ~indRes.called /\ ~extRes.called
    /\ \E d \in 0..MaxQueryDepth :
       \E o1 \in Perms(ExternalNodes(graph)) :
       \E o2 \in {o1, Reverse(o1)} :
          extRes' = [called |-> TRUE, depth |-> d,
                     direct |-> ExternalDependencies(graph, [ConfigWithDepth(d) EXCEPT !.AnalyzeExternal = FALSE], o1),
                     lo |-> ExternalDependencies(graph, ConfigWithDepth(d), o1),
                     hi |-> ExternalDependencies(graph, ConfigWithDepth(d + 1), o2)]
    /\ indRes' = NoRes
    /\ UNCHANGED <<depVars, graph, cycleRes, prevCycleRes, structVars>>

NextTraverse == TAddNode \/ TAddDependency \/ TIndirect \/ TExternal

SpecTraverse == InitGraph /\ [][NextTraverse]_vars

(***************************************************************************)
(* Properties of the graph queries.                                        *)
(***************************************************************************)
EdgePairs(g) == {<<g.Dependencies[i].From, g.Dependencies[i].To>> : i \in 1..Len(g.Dependencies)}

\* The graph's edges (possibly listed several times) form one ring a->b->c->a.
IsTriangle(g) ==
    \E a \in GraphIds, b \in GraphIds, c \in GraphIds :
        /\ Cardinality({a, b, c}) = 3
        /\ EdgePairs(g) = {<<a, b>>, <<b, c>>, <<c, a>>}

\* The graph's edges form the two-module ring a->b, b->a.
IsTwoRing(g) ==
    \E a \in GraphIds, b \in GraphIds :
        /\ a # b
        /\ EdgePairs(g) = {<<a, b>>, <<b, a>>}

SameRing(c1, c2) == c1 \in Rotations(c2)

\* C6: find_cycles returns each cycle at most once up to rotation; for the
\* ring A->B->C->A and for the two-module ring A->B, B->A the result holds
\* exactly one cycle, whichever node the DFS starts from and whichever
\* incoming edge discovers the cycle.
C6_CyclesDistinctUpToRotation ==
    cycleRes.called =>
        /\ \A i \in 1..Len(cycleRes.cycles), j \in 1..Len(cycleRes.cycles) :
              i # j => ~SameRing(cycleRes.cycles[i], cycleRes.cycles[j])
        /\ (IsTriangle(graph) \/ IsTwoRing(graph)) => Len(cycleRes.cycles) = 1

\* The ring 1->2->3->1 with its closing edge listed twice, DFS started at 2.
C6_Witness ==
    /\ cycleRes.called
    /\ IsTriangle(graph)
    /\ Len(graph.Dependencies) = 4
    /\ cycleRes.start = 2
    /\ cycleRes.cycles = << <<1, 2, 3>> >>

\* C7: every cycle returned by find_cycles is the lexicographically
\* smallest rotation of its ring of node ids.
C7_CyclesNormalized ==
    cycleRes.called =>
        \A i \in 1..Len(cycleRes.cycles) :
            \A k \in 1..Len(cycleRes.cycles[i]) :
                LexLeq(cycleRes.cycles[i], Rotation(cycleRes.cycles[i], k))

\* A ring discovered as 3,1,2 (DFS from 3) is returned as 1,2,3.
C7_Witness ==
    /\ cycleRes.called
    /\ cycleRes.start = 3
    /\ <<3, 1>> \in EdgePairs(graph)
    /\ \E i \in 1..Len(cycleRes.cycles) : cycleRes.cycles[i] = <<1, 2, 3>>

CycleKeys(cycles) == {CycleKey(cycles[i]) : i \in 1..Len(cycles)}

\* C8: calling find_cycles twice in a row without mutating the graph
\* returns the same set of normalized cycle keys both times.
C8_FindCyclesTwiceSameKeys ==
    prevCycleRes.called =>
        CycleKeys(cycleRes.cycles) = CycleKeys(prevCycleRes.cycles)

\* C9: indirect_from(id, max_depth) terminates (the DFS is entered at most
\* once per node id plus once for the start), returns at most as many edges
\* as the graph has nodes, and returns nothing for max_depth = 0.
C9_IndirectBounded ==
    indRes.called =>
        /\ indRes.calls <= Cardinality(GraphIds) + 1
        /\ Len(indRes.result) <= Cardinality(DOMAIN graph.Nodes)
        /\ (indRes.depth = 0 => indRes.result = <<>>)

Function == "Function"
Method == "Method"
Import == "Import"
Variable == "Variable"
Type == "Type"
Interface == "Interface"
Block == "Block"
Module == "Module"

NewBaseNode(nodeType, parent, attrs) == [kind |-> nodeType, parent |-> parent, attrs |-> attrs]

\* n.children of node i, in insertion order.
Children(t, i) == SelectSeq([j \in 1..Len(t) |-> j], LAMBDA j : t[j].parent = i)

\* BaseNode.AddChild: append child below node i.
AddChild(t, i, nodeType, attrs) == Append(t, NewBaseNode(nodeType, i, attrs))

\* v, ok := m[key]
Has(m, key) == key \in DOMAIN m

(***************************************************************************)
(* goparser.TypeInfo: records with Kind and Name and, where the Go value   *)
(* has a non-nil pointer, ElemType / KeyType / ValueType.                  *)
(***************************************************************************)
\* A nil *TypeInfo.
NilType == [Kind |-> "<nil>", Name |-> ""]
Basic(name) == [Kind |-> "basic", Name |-> name]
Pointer(elem) == [Kind |-> "pointer", Name |-> "", ElemType |-> elem]
Array(elem) == [Kind |-> "array", Name |-> "", ElemType |-> elem]

ElemType(t) == IF Has(t, "ElemType") THEN t.ElemType ELSE NilType
KeyType(t) == IF Has(t, "KeyType") THEN t.KeyType ELSE NilType
ValueType(t) == IF Has(t, "ValueType") THEN t.ValueType ELSE NilType

primitiveTypes ==
    {"bool", "string", "int", "int8", "int16", "int32", "int64", "uint",
     "uint8", "uint16", "uint32", "uint64", "float32", "float64",
     "complex64", "complex128", "byte", "rune", "error"}

\* The receiver / embedded type name: a pointer resolves to its element.
BaseTypeName(t) ==
    IF t.Kind = "pointer" /\ ElemType(t) # NilType THEN ElemType(t).Name ELSE t.Name

(***************************************************************************)
(* Structure model (gostructure): Elements, Relationships, Analysis.       *)
(* An Element is identified by ptr, its reference identity; a Relationship *)
(* holds the ptr of its source and of its target.                          *)
(***************************************************************************)
ElementPackage == "package"
ElementInterface == "interface"
ElementTypeDecl == "type"
ElementFunction == "function"
ElementMethod == "method"
ElementVariable == "variable"

RelationContains == "contains"
RelationImplements == "implements"
RelationEmbeds == "embeds"
RelationInterfaceEmbeds == "interface_embeds"
RelationMethodReceiver == "method_receiver"
RelationReferences == "references"

\* A nil *Element.
Nil == [Type |-> "<nil>"]

NewAnalysis == [Elements |-> <<>>, Relationships |-> <<>>]

Relationship(type, source, target) == [Type |-> type, Source |-> source, Target |-> target]

\* The first package Element, or Nil.
findPackage(an) ==
    IF \E i \in 1..Len(an.Elements) : an.Elements[i].Type = ElementPackage
    THEN an.Elements[CHOOSE i \in 1..Len(an.Elements) :
                        /\ an.Elements[i].Type = ElementPackage
                        /\ \A j \in 1..(i - 1) : an.Elements[j].Type # ElementPackage]
    ELSE Nil

hasRelationship(an, rel) ==
    \E i \in 1..Len(an.Relationships) :
        /\ an.Relationships[i].Type = rel.Type
        /\ an.Relationships[i].Source = rel.Source
        /\ an.Relationships[i].Target = rel.Target

\* if !a.hasRelationship(analysis, rel) { append }
AddRelationship(an, rel) ==
    IF hasRelationship(an, rel) THEN an
    ELSE [an EXCEPT !.Relationships = Append(@, rel)]

\* A node of an unlisted kind gets no Element.
MutMapNodeType(nodeType) ==
    CASE nodeType \in {"Package", "Module"} -> ElementPackage
      [] nodeType = "Type" -> ElementTypeDecl
      [] nodeType = "Function" -> ElementFunction
      [] nodeType = "Method" -> ElementMethod
      [] nodeType = "Interface" -> ElementInterface
      [] nodeType = "Variable" -> ElementVariable
      [] OTHER -> ""

mapNodeType(nodeType) ==
    CASE nodeType \in {"Package", "Module"} -> ElementPackage
      [] nodeType = "Type" -> ElementTypeDecl
      [] nodeType = "Function" -> ElementFunction
      [] nodeType = "Method" -> ElementMethod
      [] nodeType = "Interface" -> ElementInterface
      [] nodeType = "Variable" -> ElementVariable
      [] nodeType = "Block" -> ""
      [] OTHER -> ElementTypeDecl

nodeName(node) ==
    IF node.kind \in {"Package", "Module"} /\ Has(node.attrs, "package_name")
    THEN node.attrs.package_name
    ELSE IF Has(node.attrs, "name") THEN node.attrs.name
    ELSE ""

MutContainsSource(an, element) == element

\* The source of a child's contains relationship: the package itself for a
\* package element, the package found in the analysis otherwise.
ContainsSource(an, element) ==
    IF element.Type = ElementPackage THEN element ELSE findPackage(an)

\* analyzeNode walks node i of tree t; run tags the Elements it creates.
\* st = [an |-> the analysis, ret |-> the Element returned or Nil].
RECURSIVE structureAnalyzeNode(_, _, _, _), analyzeBlockChildren(_, _, _, _, _), analyzeChildren(_, _, _, _, _, _)
structureAnalyzeNode(t, i, run, an) ==
    IF t[i].kind = "Block"
    THEN [an |-> analyzeBlockChildren(t, Children(t, i), 1, run, an), ret |-> Nil]
    ELSE IF mapNodeType(t[i].kind) = ""
    THEN [an |-> an, ret |-> Nil]
    ELSE LET element == [ptr |-> <<run, i>>,
                         Type |-> mapNodeType(t[i].kind),
                         Name |-> nodeName(t[i]),
                         Attributes |-> t[i].attrs]
             an1 == [an EXCEPT !.Elements = Append(@, element)]
         IN  [an |-> analyzeChildren(t, Children(t, i), 1, run, element, an1),
              ret |-> element]

\* The children of a Block are walked but get no contains relationship.
MutAnalyzeBlockChildren(t, kids, k, run, an) ==
    IF k > Len(kids) THEN an
    ELSE analyzeBlockChildren(t, kids, k + 1, run,
                              structureAnalyzeNode(t, kids[k], run, an).an)

analyzeBlockChildren(t, kids, k, run, an) ==
    IF k > Len(kids) THEN an
    ELSE LET r == structureAnalyzeNode(t, kids[k], run, an)
             pkg == findPackage(r.an)
             an1 == IF r.ret # Nil /\ pkg # Nil
                    THEN AddRelationship(r.an, Relationship(RelationContains, pkg.ptr, r.ret.ptr))
                    ELSE r.an
         IN  analyzeBlockChildren(t, kids, k + 1, run, an1)

analyzeChildren(t, kids, k, run, element, an) ==
    IF k > Len(kids) THEN an
    ELSE LET r == structureAnalyzeNode(t, kids[k], run, an)
             source == ContainsSource(r.an, element)
             an1 == IF r.ret # Nil /\ source # Nil
                    THEN AddRelationship(r.an, Relationship(RelationContains, source.ptr, r.ret.ptr))
                    ELSE r.an
         IN  analyzeChildren(t, kids, k + 1, run, element, an1)

findElementsByType(an, elemType) ==
    SelectSeq(an.Elements, LAMBDA e : e.Type = elemType)

\* The first type or interface Element of that name, or Nil.
findTypeByName(an, name) ==
    LET hit(e) == e.Type \in {ElementTypeDecl, ElementInterface} /\ e.Name = name
        hits == SelectSeq(an.Elements, hit)
    IN  IF Len(hits) = 0 THEN Nil ELSE hits[1]

\* addTypeReference: a references relationship from source to the named
\* type or interface that typeInfo resolves to.
RECURSIVE structureAddTypeReference(_, _, _)
structureAddTypeReference(an, source, typeInfo) ==
    IF typeInfo = NilType THEN an
    ELSE IF typeInfo.Kind = "pointer" /\ ElemType(typeInfo) # NilType
    THEN structureAddTypeReference(an, source, ElemType(typeInfo))
    ELSE IF typeInfo.Kind = "slice" /\ ElemType(typeInfo) # NilType
    THEN structureAddTypeReference(an, source, ElemType(typeInfo))
    ELSE IF typeInfo.Kind = "map"
    THEN LET an1 == IF KeyType(typeInfo) # NilType
                    THEN structureAddTypeReference(an, source, KeyType(typeInfo))
                    ELSE an
         IN  IF ValueType(typeInfo) # NilType
             THEN structureAddTypeReference(an1, source, ValueType(typeInfo))
             ELSE an1
    ELSE IF typeInfo.Kind = "basic" /\ typeInfo.Name # ""
    THEN IF typeInfo.Name \in primitiveTypes THEN an
         ELSE LET target == findTypeByName(an, typeInfo.Name)
              IN  IF target # Nil
                  THEN AddRelationship(an, Relationship(RelationReferences, source.ptr, target.ptr))
                  ELSE an  \* the interface scan finds nothing findTypeByName missed
    ELSE an

\* addTypeReference for every type of the list, in order.
RECURSIVE addTypeReferences(_, _, _, _)
addTypeReferences(an, source, types, k) ==
    IF k > Len(types) THEN an
    ELSE addTypeReferences(structureAddTypeReference(an, source, types[k]), source, types, k + 1)

\* The params, then the returns, of a signature map (absent keys skipped).
SignatureTypes(sig) ==
    (IF Has(sig, "params") THEN sig.params ELSE <<>>) \o
    (IF Has(sig, "returns") THEN sig.returns ELSE <<>>)

RECURSIVE MethodListTypes(_, _)
MethodListTypes(methods, k) ==
    IF k > Len(methods) THEN <<>>
    ELSE (IF Has(methods[k], "signature") THEN SignatureTypes(methods[k].signature) ELSE <<>>)
         \o MethodListTypes(methods, k + 1)

EmbeddedTypes(elem) ==
    IF Has(elem.Attributes, "embedded")
    THEN LET typed == SelectSeq(elem.Attributes.embedded, LAMBDA e : Has(e, "type"))
         IN  [k \in 1..Len(typed) |-> typed[k].type]
    ELSE <<>>

\* The types detectTypeReferences reads off an Element of each kind: the
\* field types of a type; params then returns of a function; signature
\* receiver, params, returns of a method; method signatures then embedded
\* interfaces of an interface.
ReferencedTypes(elem) ==
    CASE elem.Type = ElementTypeDecl ->
            IF Has(elem.Attributes, "fields")
            THEN LET typed == SelectSeq(elem.Attributes.fields, LAMBDA f : Has(f, "type"))
                 IN  [k \in 1..Len(typed) |-> typed[k].type]
            ELSE <<>>
      [] elem.Type = ElementFunction ->
            IF Has(elem.Attributes, "signature") THEN SignatureTypes(elem.Attributes.signature)
            ELSE <<>>
      [] elem.Type = ElementMethod ->
            IF Has(elem.Attributes, "signature")
            THEN (IF Has(elem.Attributes.signature, "receiver_type")
                     /\ elem.Attributes.signature.receiver_type # NilType
                  THEN <<elem.Attributes.signature.receiver_type>> ELSE <<>>)
                 \o SignatureTypes(elem.Attributes.signature)
            ELSE <<>>
      [] elem.Type = ElementInterface ->
            (IF Has(elem.Attributes, "methods")
             THEN MethodListTypes(elem.Attributes.methods, 1) ELSE <<>>)
            \o EmbeddedTypes(elem)
      [] OTHER -> <<>>

\* One loop of detectTypeReferences over the Elements of one kind.
RECURSIVE referencesOf(_, _, _)
referencesOf(an, elems, k) ==
    IF k > Len(elems) THEN an
    ELSE referencesOf(addTypeReferences(an, elems[k], ReferencedTypes(elems[k]), 1), elems, k + 1)

detectTypeReferences(an) ==
    LET a1 == referencesOf(an, findElementsByType(an, ElementTypeDecl), 1)
        a2 == referencesOf(a1, findElementsByType(a1, ElementFunction), 1)
        a3 == referencesOf(a2, findElementsByType(a2, ElementMethod), 1)
    IN  referencesOf(a3, findElementsByType(a3, ElementInterface), 1)

RECURSIVE detectMethodReceivers(_, _, _)
detectMethodReceivers(an, methods, k) ==
    IF k > Len(methods) THEN an
    ELSE LET method == methods[k]
             recvType == IF Has(method.Attributes, "receiver_type")
                            /\ method.Attributes.receiver_type # NilType
                         THEN findTypeByName(an, BaseTypeName(method.Attributes.receiver_type))
                         ELSE Nil
             an1 == IF recvType # Nil
                    THEN AddRelationship(an, Relationship(RelationMethodReceiver, method.ptr, recvType.ptr))
                    ELSE an
         IN  detectMethodReceivers(an1, methods, k + 1)

RECURSIVE embeddingsOf(_, _, _, _), detectInterfaceEmbeddings(_, _, _)
embeddingsOf(an, iface, embedded, k) ==
    IF k > Len(embedded) THEN an
    ELSE LET target == findTypeByName(an, embedded[k].Name)
             an1 == IF target # Nil /\ target.Type = ElementInterface
                    THEN AddRelationship(an, Relationship(RelationInterfaceEmbeds, iface.ptr, target.ptr))
                    ELSE an
         IN  embeddingsOf(an1, iface, embedded, k + 1)

detectInterfaceEmbeddings(an, ifaces, k) ==
    IF k > Len(ifaces) THEN an
    ELSE detectInterfaceEmbeddings(
             embeddingsOf(an, ifaces[k], EmbeddedTypes(ifaces[k]), 1), ifaces, k + 1)

\* The embedded fields of a type Element that carry a type descriptor.
EmbeddedFields(elem) ==
    IF Has(elem.Attributes, "fields")
    THEN SelectSeq(elem.Attributes.fields,
                   LAMBDA f : Has(f, "embedded") /\ f.embedded /\ Has(f, "type"))
    ELSE <<>>

RECURSIVE compositionOf(_, _, _, _), detectComposition(_, _, _)
compositionOf(an, typ, fields, k) ==
    IF k > Len(fields) THEN an
    ELSE LET embedded == findTypeByName(an, BaseTypeName(fields[k].type))
             an1 == IF embedded # Nil
                    THEN AddRelationship(an, Relationship(RelationEmbeds, typ.ptr, embedded.ptr))
                    ELSE an
         IN  compositionOf(an1, typ, fields, k + 1)

detectComposition(an, types, k) ==
    IF k > Len(types) THEN an
    ELSE detectComposition(compositionOf(an, types[k], EmbeddedFields(types[k]), 1), types, k + 1)

(***************************************************************************)
(* Structural interface satisfaction.                                      *)
(***************************************************************************)
RECURSIVE typeMatches(_, _)
typeMatches(t1, t2) ==
    IF t1 = NilType \/ t2 = NilType THEN t1 = t2
    ELSE IF t1.Kind # t2.Kind \/ t1.Name # t2.Name THEN FALSE
    ELSE IF t1.Kind = "pointer" THEN typeMatches(ElemType(t1), ElemType(t2))
    ELSE IF t1.Kind = "slice" THEN typeMatches(ElemType(t1), ElemType(t2))
    ELSE IF t1.Kind = "map"
    THEN typeMatches(KeyType(t1), KeyType(t2)) /\ typeMatches(ValueType(t1), ValueType(t2))
    ELSE TRUE

typeListMatches(types1, types2) ==
    /\ Len(types1) = Len(types2)
    /\ \A i \in 1..Len(types1) : typeMatches(types1[i], types2[i])

signatureMatches(sig1, sig2) ==
    /\ Has(sig1, "receiver_type") =>
          /\ Has(sig2, "receiver_type")
          /\ typeMatches(sig1.receiver_type, sig2.receiver_type)
    /\ Has(sig1, "params") /\ Has(sig2, "params")
    /\ typeListMatches(sig1.params, sig2.params)
    /\ Has(sig1, "returns") /\ Has(sig2, "returns")
    /\ typeListMatches(sig1.returns, sig2.returns)

\* A method-set computation that recursed deeper than there are Elements
\* has entered a cycle: the Go recursion does not return (stack overflow).
Overflow == [ok |-> FALSE, methods |-> <<>>]

\* interfaceMethods: the named entries of the methods attribute; a nameless
\* entry is expanded through the interface named by its first parameter.
RECURSIVE interfaceMethods(_, _, _), interfaceMethodsFrom(_, _, _, _)
interfaceMethods(iface, an, depth) ==
    IF depth > Len(an.Elements) THEN Overflow
    ELSE IF Has(iface.Attributes, "methods")
    THEN interfaceMethodsFrom(iface.Attributes.methods, 1, an, depth)
    ELSE [ok |-> TRUE, methods |-> <<>>]

interfaceMethodsFrom(methodList, k, an, depth) ==
    IF k > Len(methodList) THEN [ok |-> TRUE, methods |-> <<>>]
    ELSE LET method == methodList[k]
             embedded == IF Has(method, "signature") /\ Has(method.signature, "params")
                            /\ Len(method.signature.params) > 0
                         THEN findTypeByName(an, method.signature.params[1].Name)
                         ELSE Nil
             head == IF Has(method, "name") /\ method.name # ""
                     THEN [ok |-> TRUE, methods |-> <<method>>]
                     ELSE IF embedded # Nil /\ embedded.Type = ElementInterface
                     THEN interfaceMethods(embedded, an, depth + 1)
                     ELSE [ok |-> TRUE, methods |-> <<>>]
             rest == interfaceMethodsFrom(methodList, k + 1, an, depth)
         IN  IF head.ok /\ rest.ok
             THEN [ok |-> TRUE, methods |-> head.methods \o rest.methods]
             ELSE Overflow

\* The entries of the type's own methods attribute, tagged in place.
MutDirectMethods(typeName, an) ==
    LET typ == findTypeByName(an, typeName)
    IN  IF typ # Nil /\ Has(typ.Attributes, "methods")
        THEN [k \in 1..Len(typ.Attributes.methods) |->
                 [name |-> typ.Attributes.methods[k].name,
                  signature |-> typ.Attributes.methods[k].signature,
                  receiver_type_name |-> typeName,
                  node |-> typ.ptr[2]]]
        ELSE <<>>

\* The methods declared on the type named typeName (value or pointer receiver).
\* Each entry is a map the analyzer allocates: node is 0; an entry that were
\* a map of the syntax tree would carry the index of its node.
directMethods(typeName, an) ==
    LET own(m) == /\ Has(m.Attributes, "receiver_type")
                  /\ m.Attributes.receiver_type # NilType
                  /\ BaseTypeName(m.Attributes.receiver_type) = typeName
                  /\ Has(m.Attributes, "signature")
        ms == SelectSeq(findElementsByType(an, ElementMethod), own)
    IN  [k \in 1..Len(ms) |-> [name |-> ms[k].Name,
                                signature |-> ms[k].Attributes.signature,
                                receiver_type_name |-> typeName,
                                node |-> 0]]

\* typeMethods: the direct methods, then the methods of every embedded type.
RECURSIVE typeMethods(_, _, _), embeddedMethodsFrom(_, _, _, _)
typeMethods(typ, an, depth) ==
    IF depth > Len(an.Elements) THEN Overflow
    ELSE LET rest == embeddedMethodsFrom(EmbeddedFields(typ), 1, an, depth)
         IN  IF rest.ok
             THEN [ok |-> TRUE, methods |-> directMethods(typ.Name, an) \o rest.methods]
             ELSE Overflow

embeddedMethodsFrom(fields, k, an, depth) ==
    IF k > Len(fields) THEN [ok |-> TRUE, methods |-> <<>>]
    ELSE LET typeName == BaseTypeName(fields[k].type)
             embedded == findTypeByName(an, typeName)
             head == IF embedded # Nil
                     THEN typeMethods(embedded, an, depth + 1)
                     ELSE [ok |-> TRUE, methods |-> <<>>]
             rest == embeddedMethodsFrom(fields, k + 1, an, depth)
         IN  IF head.ok /\ rest.ok
             THEN [ok |-> TRUE,
                   methods |-> [j \in 1..Len(head.methods) |->
                                   [head.methods[j] EXCEPT !.receiver_type_name = typeName]]
                               \o rest.methods]
             ELSE Overflow

\* typeImplementsInterface: "yes", "no", or "panic" when a same-named
\* interface method carries no signature map (unchecked type assertion).
RECURSIVE methodFound(_, _, _), implementsFrom(_, _, _)
methodFound(imethod, tmethods, k) ==
    IF k > Len(tmethods) THEN "no"
    ELSE IF tmethods[k].name = imethod.name
    THEN IF ~Has(imethod, "signature") THEN "panic"
         ELSE IF signatureMatches(tmethods[k].signature, imethod.signature) THEN "yes"
         ELSE methodFound(imethod, tmethods, k + 1)
    ELSE methodFound(imethod, tmethods, k + 1)

implementsFrom(ifaceMethods, tmethods, k) ==
    IF k > Len(ifaceMethods) THEN "yes"
    ELSE LET found == methodFound(ifaceMethods[k], tmethods, 1)
         IN  IF found = "yes" THEN implementsFrom(ifaceMethods, tmethods, k + 1)
             ELSE found

typeImplementsInterface(ifaceMethods, tmethods) ==
    IF Len(tmethods) = 0 THEN "no" ELSE implementsFrom(ifaceMethods, tmethods, 1)

\* st = [an |-> the analysis, crash |-> "" | "overflow" | "panic"].
RECURSIVE implementationsOf(_, _, _, _, _), detectInterfaceImplementations(_, _, _)
implementationsOf(st, iface, ifaceMethods, types, k) ==
    IF k > Len(types) \/ st.crash # "" THEN st
    ELSE LET tm == typeMethods(types[k], st.an, 1)
             verdict == IF tm.ok THEN typeImplementsInterface(ifaceMethods, tm.methods)
                        ELSE "overflow"
             st1 == CASE verdict = "yes" ->
                            [st EXCEPT !.an = AddRelationship(@,
                                Relationship(RelationImplements, types[k].ptr, iface.ptr))]
                      [] verdict = "no" -> st
                      [] OTHER -> [st EXCEPT !.crash = verdict]
         IN  implementationsOf(st1, iface, ifaceMethods, types, k + 1)

detectInterfaceImplementations(st, ifaces, k) ==
    IF k > Len(ifaces) \/ st.crash # "" THEN st
    ELSE LET im == interfaceMethods(ifaces[k], st.an, 1)
             st1 == IF ~im.ok THEN [st EXCEPT !.crash = "overflow"]
                    ELSE IF Len(im.methods) = 0 THEN st
                    ELSE implementationsOf(st, ifaces[k], im.methods,
                                           findElementsByType(st.an, ElementTypeDecl), 1)
         IN  detectInterfaceImplementations(st1, ifaces, k + 1)

\* The passes with composition detected before the method receivers.
MutDetectPatterns(an) ==
    LET Receivers(a) == detectMethodReceivers(a, findElementsByType(a, ElementMethod), 1)
        Embeddings(a) == detectInterfaceEmbeddings(a, findElementsByType(a, ElementInterface), 1)
        Implementations(a) ==
            detectInterfaceImplementations([an |-> a, crash |-> ""],
                                           findElementsByType(a, ElementInterface), 1)
        Composition(a) == detectComposition(a, findElementsByType(a, ElementTypeDecl), 1)
    IN  Implementations(Embeddings(Receivers(Composition(detectTypeReferences(an)))))

\* detectPatterns: the passes in their fixed order.
detectPatterns(an) ==
    LET Receivers(a) == detectMethodReceivers(a, findElementsByType(a, ElementMethod), 1)
        Embeddings(a) == detectInterfaceEmbeddings(a, findElementsByType(a, ElementInterface), 1)
        Implementations(a) ==
            detectInterfaceImplementations([an |-> a, crash |-> ""],
                                           findElementsByType(a, ElementInterface), 1)
        Composition(st) ==
            IF st.crash # "" THEN st
            ELSE [an |-> detectComposition(st.an, findElementsByType(st.an, ElementTypeDecl), 1),
                  crash |-> ""]
    IN  Composition(Implementations(Embeddings(Receivers(detectTypeReferences(an)))))

\* Analyzer.Analyze: tree walk from the root, then pattern detection.  The
\* result carries crash # "" when the process died instead of returning;
\* err stays FALSE: the walk and the detectors only pass errors on and none
\* of them creates one.
StructureAnalyze(t, run) ==
    LET Result(st) ==
            [err |-> FALSE, crash |-> st.crash,
             Elements |-> IF st.crash = "" THEN st.an.Elements ELSE <<>>,
             Relationships |-> IF st.crash = "" THEN st.an.Relationships ELSE <<>>]
    IN  Result(detectPatterns(structureAnalyzeNode(t, 1, run, NewAnalysis).an))

\* The syntax tree after Analyze.  The only stores into an attribute map are
\* method["receiver_type_name"] = typeName in typeMethods, on the method
\* maps detectInterfaceImplementations obtains for every type once some
\* interface has methods; a store into a map whose node is not 0 lands in
\* the methods attribute of that tree node.
TreeAfterAnalyze(t, an) ==
    LET types == findElementsByType(an, ElementTypeDecl)
        probed == \E k \in 1..Len(an.Elements) :
                     /\ an.Elements[k].Type = ElementInterface
                     /\ Len(interfaceMethods(an.Elements[k], an, 1).methods) > 0
        stores == IF probed
                  THEN UNION {{m \in {typeMethods(types[k], an, 1).methods[j] :
                                        j \in 1..Len(typeMethods(types[k], an, 1).methods)} :
                                 m.node # 0} : k \in 1..Len(types)}
                  ELSE {}
        hit(i, entry) == {m \in stores : m.node = i /\ m.name = entry.name}
        tagged(i, entry) ==
            IF hit(i, entry) = {} THEN entry
            ELSE [key \in (DOMAIN entry) \cup {"receiver_type_name"} |->
                     IF key = "receiver_type_name"
                     THEN (CHOOSE m \in hit(i, entry) : TRUE).receiver_type_name
                     ELSE entry[key]]
    IN  [i \in 1..Len(t) |->
            IF \E m \in stores : m.node = i
            THEN [t[i] EXCEPT !.attrs.methods = [j \in 1..Len(@) |-> tagged(i, @[j])]]
            ELSE t[i]]

\* Merge appending every donor Element, packages included.
MutMergeElements(elements, existingPackages, donor, k) == elements \o donor

\* Analyzer.Merge(base, other): packages by name (first wins), every other
\* donor Element appended, all donor Relationships appended.
RECURSIVE mergeElements(_, _, _, _)
mergeElements(elements, existingPackages, donor, k) ==
    IF k > Len(donor) THEN elements
    ELSE IF donor[k].Type = ElementPackage /\ donor[k].Name \in existingPackages
    THEN mergeElements(elements, existingPackages, donor, k + 1)
    ELSE mergeElements(Append(elements, donor[k]), existingPackages, donor, k + 1)

StructureMerge(base, other) ==
    LET existingPackages == {base.Elements[i].Name : i \in {j \in 1..Len(base.Elements) :
                                                        base.Elements[j].Type = ElementPackage}}
    IN  [base EXCEPT !.Elements = mergeElements(@, existingPackages, other.Elements, 1),
                     !.Relationships = @ \o other.Relationships]

(***************************************************************************)
(* Go dependency analyzer (godependency).  The analysis state is           *)
(* st = [g |-> the graph, crash |-> "" | "panic"]: crash is set when an    *)
(* unchecked type assertion fails.  Edge locations are not modelled beyond *)
(* the file_path lookup that builds them.                                  *)
(***************************************************************************)

Dependency(from, to, type, external) ==
    [From |-> from, To |-> to, Type |-> type, IsExternal |-> external]

\* fmt.Sprintf("%s.%s", a, b)
Qualified(a, b) == a \o "." \o b

\* An edge whose Location reads node.Attributes()["file_path"].(string).
AddLocatedDependency(st, node, dep) ==
    IF st.crash # "" THEN st
    ELSE IF ~Has(node.attrs, "file_path") THEN [st EXCEPT !.crash = "panic"]
    ELSE [st EXCEPT !.g = AddDependency(@, dep)]

\* node.Metadata[key] = value on the node stored under id
SetMetadata(g, id, key, value) ==
    [g EXCEPT !.Nodes[id].Metadata =
        [k \in (DOMAIN @) \cup {key} |-> IF k = key THEN value ELSE @[k]]]

\* addTypeReference: a reference edge from source to the named type.
RECURSIVE dependencyAddTypeReference(_, _, _, _)
dependencyAddTypeReference(g, sourceID, typeInfo, pkgName) ==
    IF typeInfo = NilType THEN g
    ELSE IF typeInfo.Kind = "pointer" /\ ElemType(typeInfo) # NilType
    THEN dependencyAddTypeReference(g, sourceID, ElemType(typeInfo), pkgName)
    ELSE IF typeInfo.Kind = "slice" /\ ElemType(typeInfo) # NilType
    THEN dependencyAddTypeReference(g, sourceID, ElemType(typeInfo), pkgName)
    ELSE IF typeInfo.Kind = "map"
    THEN LET g1 == IF KeyType(typeInfo) # NilType
                   THEN dependencyAddTypeReference(g, sourceID, KeyType(typeInfo), pkgName)
                   ELSE g
         IN  IF ValueType(typeInfo) # NilType
             THEN dependencyAddTypeReference(g1, sourceID, ValueType(typeInfo), pkgName)
             ELSE g1
    ELSE IF typeInfo.Kind = "basic" /\ typeInfo.Name \in primitiveTypes THEN g
    ELSE AddDependency(g, Dependency(sourceID, Qualified(pkgName, typeInfo.Name), Reference, FALSE))

RECURSIVE addTypeReferencesTo(_, _, _, _, _)
addTypeReferencesTo(g, sourceID, types, k, pkgName) ==
    IF k > Len(types) THEN g
    ELSE addTypeReferencesTo(dependencyAddTypeReference(g, sourceID, types[k], pkgName),
                             sourceID, types, k + 1, pkgName)

\* analyzeInterface: the contract node, inherit edges to the embedded
\* interfaces, reference edges for the method signatures.
RECURSIVE inheritEdges(_, _, _, _, _, _)
inheritEdges(st, node, ifaceID, embedded, k, pkgName) ==
    IF k > Len(embedded) THEN st
    ELSE inheritEdges(
             AddLocatedDependency(st, node,
                 Dependency(ifaceID, Qualified(pkgName, embedded[k].Name), Inherit, FALSE)),
             node, ifaceID, embedded, k + 1, pkgName)

analyzeInterface(st, node, pkgName) ==
    IF ~Has(node.attrs, "name") THEN st
    ELSE LET id == Qualified(pkgName, node.attrs.name)
             ifaceNode == [ID |-> id, Type |-> ContractNode, Name |-> node.attrs.name,
                           Path |-> pkgName, IsExternal |-> FALSE, Metadata |-> <<>>]
             g1 == AddNode(st.g, ifaceNode)
             g2 == IF Has(node.attrs, "methods")
                   THEN SetMetadata(g1, id, "methods", node.attrs.methods)
                   ELSE g1
             embedded == IF Has(node.attrs, "embedded")
                         THEN LET typed == SelectSeq(node.attrs.embedded, LAMBDA e : Has(e, "type"))
                              IN  [k \in 1..Len(typed) |-> typed[k].type]
                         ELSE <<>>
             st3 == inheritEdges([st EXCEPT !.g = g2], node, id, embedded, 1, pkgName)
         IN  IF st3.crash # "" THEN st3
             ELSE IF Has(node.attrs, "methods")
             THEN [st3 EXCEPT !.g = addTypeReferencesTo(@, id,
                                        MethodListTypes(node.attrs.methods, 1), 1, pkgName)]
             ELSE st3

\* The type descriptors of the references found in a function body.
RECURSIVE BodyReferences(_, _)
BodyReferences(body, k) ==
    IF k > Len(body) THEN <<>>
    ELSE (IF Has(body[k], "references")
          THEN LET typed == SelectSeq(body[k].references, LAMBDA r : Has(r, "type"))
               IN  [j \in 1..Len(typed) |-> typed[j].type]
          ELSE <<>>)
         \o BodyReferences(body, k + 1)

RECURSIVE bodyEdges(_, _, _, _, _)
bodyEdges(g, funcID, refs, k, pkgName) ==
    IF k > Len(refs) THEN g
    ELSE bodyEdges(IF refs[k].Kind = "package"
                   THEN AddDependency(g, Dependency(funcID, refs[k].Name, Reference, FALSE))
                   ELSE dependencyAddTypeReference(g, funcID, refs[k], pkgName),
                   funcID, refs, k + 1, pkgName)

\* analyzeFunction: the function node (a method's id is qualified by its
\* receiver type), reference edges for the signature and the body.
analyzeFunction(st, node, pkgName) ==
    IF ~Has(node.attrs, "name") THEN st
    ELSE LET name == node.attrs.name
             funcID == IF node.kind = Method /\ Has(node.attrs, "receiver_type")
                       THEN Qualified(Qualified(pkgName, BaseTypeName(node.attrs.receiver_type)), name)
                       ELSE Qualified(pkgName, name)
             funcNode == [ID |-> funcID, Type |-> FunctionNode, Name |-> name,
                          Path |-> pkgName, IsExternal |-> FALSE, Metadata |-> <<>>]
             g1 == AddNode(st.g, funcNode)
             sigTypes == IF Has(node.attrs, "signature")
                         THEN (IF node.kind = Method /\ Has(node.attrs.signature, "receiver_type")
                               THEN <<node.attrs.signature.receiver_type>> ELSE <<>>)
                              \o SignatureTypes(node.attrs.signature)
                         ELSE <<>>
             g2 == addTypeReferencesTo(g1, funcID, sigTypes, 1, pkgName)
             g3 == IF Has(node.attrs, "body")
                   THEN bodyEdges(g2, funcID, BodyReferences(node.attrs.body, 1), 1, pkgName)
                   ELSE g2
         IN  [st EXCEPT !.g = g3]

RECURSIVE compareTypes(_, _)
compareTypes(a, b) ==
    IF a = NilType \/ b = NilType THEN a = b
    ELSE LET t1 == IF a.Kind = "pointer" /\ ElemType(a) # NilType THEN ElemType(a) ELSE a
             t2 == IF b.Kind = "pointer" /\ ElemType(b) # NilType THEN ElemType(b) ELSE b
         IN  IF t1.Kind # t2.Kind THEN FALSE
             ELSE IF t1.Kind = "basic" THEN t1.Name = t2.Name
             ELSE IF t1.Kind = "slice" THEN compareTypes(ElemType(t1), ElemType(t2))
             ELSE IF t1.Kind = "map"
             THEN compareTypes(KeyType(t1), KeyType(t2)) /\ compareTypes(ValueType(t1), ValueType(t2))
             ELSE TRUE

compareMethodSignatures(sig1, sig2) ==
    /\ Has(sig1, "params") /\ Has(sig2, "params")
    /\ Len(sig1.params) = Len(sig2.params)
    /\ \A i \in 1..Len(sig1.params) : compareTypes(sig1.params[i], sig2.params[i])
    /\ Has(sig1, "returns") /\ Has(sig2, "returns")
    /\ Len(sig1.returns) = Len(sig2.returns)
    /\ \A i \in 1..Len(sig1.returns) : compareTypes(sig1.returns[i], sig2.returns[i])

\* structMethods[name] = sig for every entry with a name and a signature,
\* later entries overriding earlier ones.
RECURSIVE putMethods(_, _, _)
putMethods(structMethods, methods, k) ==
    IF k > Len(methods) THEN structMethods
    ELSE IF Has(methods[k], "name") /\ Has(methods[k], "signature")
    THEN putMethods([n \in (DOMAIN structMethods) \cup {methods[k].name} |->
                        IF n = methods[k].name THEN methods[k].signature ELSE structMethods[n]],
                    methods, k + 1)
    ELSE putMethods(structMethods, methods, k + 1)

\* The methods metadata of the nodes of the directly embedded types.
RECURSIVE putEmbeddedMethods(_, _, _, _, _)
putEmbeddedMethods(structMethods, g, fields, k, pkgName) ==
    IF k > Len(fields) THEN structMethods
    ELSE LET embeddedID == Qualified(pkgName, BaseTypeName(fields[k].type))
             next == IF HasNode(g, embeddedID) /\ Has(g.Nodes[embeddedID].Metadata, "methods")
                     THEN putMethods(structMethods, g.Nodes[embeddedID].Metadata.methods, 1)
                     ELSE structMethods
         IN  putEmbeddedMethods(next, g, fields, k + 1, pkgName)

\* The methods of the contracts named in the embedded metadata of node id,
\* followed to the given number of levels.
RECURSIVE embeddedContractMethods(_, _, _, _, _)
embeddedContractMethods(g, embedded, k, pkgName, levels) ==
    IF k > Len(embedded) THEN <<>>
    ELSE LET embeddedID == IF Has(embedded[k], "type")
                           THEN Qualified(pkgName, embedded[k].type.Name) ELSE ""
             head == IF Has(embedded[k], "type") /\ HasNode(g, embeddedID)
                     THEN (IF Has(g.Nodes[embeddedID].Metadata, "methods")
                           THEN g.Nodes[embeddedID].Metadata.methods ELSE <<>>)
                          \o (IF levels > 1 /\ Has(g.Nodes[embeddedID].Metadata, "embedded")
                              THEN embeddedContractMethods(g, g.Nodes[embeddedID].Metadata.embedded,
                                                           1, pkgName, levels - 1)
                              ELSE <<>>)
                     ELSE <<>>
         IN  head \o embeddedContractMethods(g, embedded, k + 1, pkgName, levels)

\* "yes", "no", or "panic" when an interface method has no signature map.
RECURSIVE implementsAll(_, _, _)
implementsAll(structMethods, allIfaceMethods, k) ==
    IF k > Len(allIfaceMethods) THEN "yes"
    ELSE LET m == allIfaceMethods[k] IN
         IF ~Has(m, "name") THEN implementsAll(structMethods, allIfaceMethods, k + 1)
         ELSE IF m.name \notin DOMAIN structMethods THEN "no"
         ELSE IF ~Has(m, "signature") THEN "panic"
         ELSE IF ~compareMethodSignatures(structMethods[m.name], m.signature) THEN "no"
         ELSE implementsAll(structMethods, allIfaceMethods, k + 1)

\* The loop over graph.Nodes: a satisfy edge to every contract node whose
\* methods are all implemented.  order is the iteration order of the map.
RECURSIVE satisfyEdges(_, _, _, _, _, _, _)
satisfyEdges(st, node, typeID, structMethods, order, k, pkgName) ==
    IF k > Len(order) \/ st.crash # "" THEN st
    ELSE LET n == st.g.Nodes[order[k]]
             verdict == IF n.Type # ContractNode \/ ~Has(n.Metadata, "methods") THEN "no"
                        ELSE implementsAll(structMethods,
                                 n.Metadata.methods \o
                                 (IF Has(n.Metadata, "embedded")
                                  THEN embeddedContractMethods(st.g, n.Metadata.embedded, 1, pkgName, 2)
                                  ELSE <<>>), 1)
             st1 == CASE verdict = "yes" ->
                            AddLocatedDependency(st, node, Dependency(typeID, n.ID, Satisfy, FALSE))
                      [] verdict = "no" -> st
                      [] OTHER -> [st EXCEPT !.crash = "panic"]
         IN  satisfyEdges(st1, node, typeID, structMethods, order, k + 1, pkgName)

\* The compose edge of an embedded field, the reference edge of any other.
RECURSIVE fieldEdges(_, _, _, _, _, _)
fieldEdges(st, node, typeID, fields, k, pkgName) ==
    IF k > Len(fields) \/ st.crash # "" THEN st
    ELSE LET st1 == IF ~Has(fields[k], "type") THEN st
                    ELSE IF Has(fields[k], "embedded") /\ fields[k].embedded
                    THEN AddLocatedDependency(st, node,
                             Dependency(typeID, Qualified(pkgName, BaseTypeName(fields[k].type)),
                                        Compose, FALSE))
                    ELSE [st EXCEPT !.g = dependencyAddTypeReference(@, typeID, fields[k].type, pkgName)]
         IN  fieldEdges(st1, node, typeID, fields, k + 1, pkgName)

\* Some iteration order of the map graph.Nodes; flip selects its reverse.
NodeOrder(g, flip) ==
    LET some == CHOOSE p \in Perms(DOMAIN g.Nodes) : TRUE
    IN  IF flip THEN Reverse(some) ELSE some

\* analyzeType: the type node, compose / reference edges for its fields and
\* satisfy edges to the contracts already in the graph.
analyzeType(st, node, pkgName, flip) ==
    IF ~Has(node.attrs, "name") THEN st
    ELSE LET id == Qualified(pkgName, node.attrs.name)
             typeNode == [ID |-> id, Type |-> TypeNode, Name |-> node.attrs.name,
                          Path |-> pkgName, IsExternal |-> FALSE, Metadata |-> <<>>]
             g1 == AddNode(st.g, typeNode)
             g2 == IF Has(node.attrs, "methods")
                   THEN SetMetadata(g1, id, "methods", node.attrs.methods)
                   ELSE g1
             fields == IF Has(node.attrs, "fields") THEN node.attrs.fields ELSE <<>>
             st3 == fieldEdges([st EXCEPT !.g = g2], node, id, fields, 1, pkgName)
         IN  IF st3.crash # "" \/ ~Has(node.attrs, "methods") THEN st3
             ELSE LET structMethods ==
                          putEmbeddedMethods(putMethods(<<>>, node.attrs.methods, 1), st3.g,
                              SelectSeq(fields, LAMBDA f : Has(f, "embedded") /\ f.embedded
                                                           /\ Has(f, "type")),
                              1, pkgName)
                  IN  satisfyEdges(st3, node, id, structMethods, NodeOrder(st3.g, flip), 1, pkgName)

\* analyzeNode; flips[i] selects the map iteration order used for node i.
RECURSIVE dependencyAnalyzeNode(_, _, _, _, _), dependencyAnalyzeNodes(_, _, _, _, _, _)
dependencyAnalyzeNode(st, t, i, pkgName, flips) ==
    IF st.crash # "" THEN st
    ELSE CASE t[i].kind = Import ->
                 IF ~Has(t[i].attrs, "path") THEN st
                 ELSE LET path == t[i].attrs.path
                          importNode == [ID |-> path, Type |-> ModuleNode, Name |-> path,
                                         Path |-> path, IsExternal |-> TRUE, Metadata |-> <<>>]
                      IN  AddLocatedDependency([st EXCEPT !.g = AddNode(@, importNode)], t[i],
                                               Dependency(pkgName, path, Include, TRUE))
           [] t[i].kind = Type -> analyzeType(st, t[i], pkgName, flips[i])
           [] t[i].kind = Interface -> analyzeInterface(st, t[i], pkgName)
           [] t[i].kind \in {Function, Method} -> analyzeFunction(st, t[i], pkgName)
           [] t[i].kind = Block -> dependencyAnalyzeNodes(st, t, Children(t, i), 1, pkgName, flips)
           [] OTHER -> st

dependencyAnalyzeNodes(st, t, kids, k, pkgName, flips) ==
    IF k > Len(kids) THEN st
    ELSE dependencyAnalyzeNodes(dependencyAnalyzeNode(st, t, kids[k], pkgName, flips),
                                t, kids, k + 1, pkgName, flips)

\* Analyze falling back to an empty package name instead of failing.
MutDependencyAnalyze(t, flips) ==
    LET pkgName == IF Has(t[1].attrs, "package_name") THEN t[1].attrs.package_name ELSE ""
        pkgNode == [ID |-> pkgName, Type |-> ModuleNode, Name |-> pkgName,
                    Path |-> pkgName, IsExternal |-> FALSE, Metadata |-> <<>>]
        Result(st) == [err |-> FALSE, crash |-> st.crash, graph |-> st.g]
    IN  Result(dependencyAnalyzeNodes([g |-> AddNode(NewGraph, pkgNode), crash |-> ""],
                                      t, Children(t, 1), 1, pkgName, flips))

\* Analyzer.Analyze: reset the graph, add the module node, walk the children.
\* The result is [err, crash, graph]; graph is the analyzer's graph afterwards.
DependencyAnalyze(t, flips) ==
    IF ~Has(t[1].attrs, "package_name")
    THEN [err |-> TRUE, crash |-> "", graph |-> NewGraph]
    ELSE LET pkgName == t[1].attrs.package_name
             pkgNode == [ID |-> pkgName, Type |-> ModuleNode, Name |-> pkgName,
                         Path |-> pkgName, IsExternal |-> FALSE, Metadata |-> <<>>]
             st == dependencyAnalyzeNodes([g |-> AddNode(NewGraph, pkgNode), crash |-> ""],
                                          t, Children(t, 1), 1, pkgName, flips)
         IN  [err |-> FALSE, crash |-> st.crash, graph |-> st.g]

\* fmt.Sprintf("%s:%s:%s", dep.From, dep.To, dep.Type)
DepKey(dep) == dep.From \o ":" \o dep.To \o ":" \o dep.Type

\* Node union in which a node present in both graphs takes the donor's flag.
MutMergeNodes(g, o) ==
    [g EXCEPT !.Nodes =
        [id \in (DOMAIN g.Nodes) \cup (DOMAIN o.Nodes) |->
            IF id \in DOMAIN o.Nodes THEN o.Nodes[id] ELSE g.Nodes[id]]]

\* Merge, first loop: the donor's nodes are copied in or folded into the
\* nodes of the same id (maps.Copy of the metadata, IsExternal or-ed).
mergeNodes(g, o) ==
    [g EXCEPT !.Nodes =
        [id \in (DOMAIN g.Nodes) \cup (DOMAIN o.Nodes) |->
            IF id \in DOMAIN g.Nodes /\ id \in DOMAIN o.Nodes
            THEN [g.Nodes[id] EXCEPT
                     !.Metadata = [k \in (DOMAIN g.Nodes[id].Metadata) \cup (DOMAIN o.Nodes[id].Metadata) |->
                                      IF k \in DOMAIN o.Nodes[id].Metadata
                                      THEN o.Nodes[id].Metadata[k] ELSE g.Nodes[id].Metadata[k]],
                     !.IsExternal = @ \/ o.Nodes[id].IsExternal]
            ELSE IF id \in DOMAIN g.Nodes THEN g.Nodes[id]
            ELSE o.Nodes[id]]]

\* Merge without the endpoint test: every donor edge with a new key is added.
RECURSIVE MutMergeDependencies(_, _, _, _)
MutMergeDependencies(g, deps, k, existingDeps) ==
    IF k > Len(deps) THEN g
    ELSE IF DepKey(deps[k]) \notin existingDeps
    THEN MutMergeDependencies(
             AddDependency(g, Dependency(deps[k].From, deps[k].To, deps[k].Type, deps[k].IsExternal)),
             deps, k + 1, existingDeps)
    ELSE MutMergeDependencies(g, deps, k + 1, existingDeps)

\* Merge, second loop: a donor edge is added when both its ends are nodes of
\* the receiver and its key is not in existingDeps, the index built from the
\* receiver's edges before the loop.
RECURSIVE mergeDependencies(_, _, _, _)
mergeDependencies(g, deps, k, existingDeps) ==
    IF k > Len(deps) THEN g
    ELSE IF ~HasNode(g, deps[k].From) \/ ~HasNode(g, deps[k].To)
    THEN mergeDependencies(g, deps, k + 1, existingDeps)
    ELSE IF DepKey(deps[k]) \notin existingDeps
    THEN mergeDependencies(
             AddDependency(g, Dependency(deps[k].From, deps[k].To, deps[k].Type, deps[k].IsExternal)),
             deps, k + 1, existingDeps)
    ELSE mergeDependencies(g, deps, k + 1, existingDeps)

\* Analyzer.Merge
DependencyMerge(g, o) ==
    LET g1 == mergeNodes(g, o)
        existingDeps == {DepKey(g1.Dependencies[k]) : k \in 1..Len(g1.Dependencies)}
    IN  mergeDependencies(g1, o.Dependencies, 1, existingDeps)

(***************************************************************************)
(* SpecStructure: the front end builds syntax trees of any shape (one      *)
(* Module root per translation unit, declarations and Block groups nested  *)
(* at will); each tree is analysed, the first result is adopted as the     *)
(* combined analysis and later results are merged into it.                 *)
(***************************************************************************)
MaxNodes == 4    \* nodes of all trees together
MaxRuns == 2     \* Analyze calls
MaxMerges == 2   \* Merge calls

\* The attribute map the front end gives a node of each kind.
ShapeAttrs(kind) ==
    CASE kind = Type -> [name |-> "T"]
      [] kind = Function -> [name |-> "f"]
      [] kind = Import -> [path |-> "lib"]
      [] OTHER -> <<>>

InitStructure ==
    /\ graph = NewGraph
    /\ cycleRes = NoRes
    /\ prevCycleRes = NoRes
    /\ indRes = NoRes
    /\ extRes = NoRes
    /\ tree = <<>>
    /\ built = 0
    /\ analysis = NoRes
    /\ goAnalysis = NoRes
    /\ runs = 0
    /\ merges = 0
    /\ cursor = 0
    /\ analyzeRes = NoRes
    /\ otherAnalyzer = NoRes
    /\ metrics = NoRes

\* The front end starts the tree of the next translation unit.
SNewTree ==
    /\ built + Len(tree) < MaxNodes
    /\ tree = <<>> \/ runs > 0
    /\ \E attrs \in {[package_name |-> "p"], [package_name |-> "q"], <<>>} :
          tree' = <<NewBaseNode(Module, 0, attrs)>>
    /\ built' = built + Len(tree)
    /\ UNCHANGED <<metrics, depVars, analysis, goAnalysis, runs, merges, graphVars, cursor>>

SAddChild ==
    /\ tree # <<>>
    /\ built + Len(tree) < MaxNodes
    /\ \E parent \in 1..Len(tree), kind \in {Type, Function, Import, Block} :
          tree' = AddChild(tree, parent, kind, ShapeAttrs(kind))
    /\ UNCHANGED <<metrics, depVars, built, analysis, goAnalysis, runs, merges, graphVars, cursor>>

Called(an) == [called |-> TRUE, err |-> an.err, crash |-> an.crash,
               Elements |-> an.Elements, Relationships |-> an.Relationships]

SAnalyze ==
    /\ tree # <<>>
    /\ runs < MaxRuns
    /\ analysis' = Called(StructureAnalyze(tree, runs + 1))
    /\ tree' = TreeAfterAnalyze(tree, analysis')
    /\ runs' = runs + 1
    /\ UNCHANGED <<metrics, depVars, built, goAnalysis, merges, graphVars, cursor>>

\* goAnalysis = ga
SAdopt ==
    /\ analysis.called /\ analysis.crash = ""
    /\ ~goAnalysis.called
    /\ goAnalysis' = analysis
    /\ analysis' = NoRes
    /\ UNCHANGED <<metrics, depVars, tree, built, runs, merges, graphVars, cursor>>

SMerge ==
    /\ analysis.called /\ analysis.crash = ""
    /\ goAnalysis.called
    /\ merges < MaxMerges
    /\ goAnalysis' = StructureMerge(goAnalysis, analysis)
    /\ merges' = merges + 1
    /\ UNCHANGED <<metrics, depVars, tree, built, analysis, runs, graphVars, cursor>>

NextStructure == SNewTree \/ SAddChild \/ SAnalyze \/ SAdopt \/ SMerge

SpecStructure == InitStructure /\ [][NextStructure]_vars

(***************************************************************************)
(* SpecSatisfy: the front end emits one translation unit, a Module root    *)
(* with type, interface and method declarations taken in order from a      *)
(* declaration list (DeclPool), and the unit is analysed once by the       *)
(* structure analyzer and once by the dependency analyzer.  Type and       *)
(* interface names are unique in a unit and so are the method names of a   *)
(* receiver.                                                               *)
(***************************************************************************)
MaxDecls == 5    \* declarations of the unit

IntT == Basic("int")
StrT == Basic("string")

\* signature map of a method with one parameter, returning error
Sig(param) == [params |-> <<param>>, returns |-> <<Basic("error")>>]

\* createTypeNode: a struct type with its fields
StructDecl(name, fields) ==
    [kind |-> Type, attrs |-> [name |-> name, fields |-> fields, underlying_type |-> "struct"]]

EmbeddedField(type) == [name |-> type.Name, type |-> type, embedded |-> TRUE]

\* createTypeNode: an interface with its named methods and embedded interfaces
InterfaceDecl(name, methods, embedded) ==
    [kind |-> Interface, attrs |-> [name |-> name, methods |-> methods, embedded |-> embedded]]

MethodEntry(name, param) == [name |-> name, signature |-> Sig(param)]

EmbeddedEntry(name) == [type |-> Basic(name)]

\* convertFunction: a method declaration
MethodDecl(recv, name, param) ==
    [kind |-> Method, attrs |-> [name |-> name, signature |-> Sig(param), receiver_type |-> recv]]

DeclPool ==
    << StructDecl("T", <<>>),
       StructDecl("T", <<EmbeddedField(Basic("E"))>>),
       StructDecl("T", <<EmbeddedField(Pointer(Basic("E")))>>),
       StructDecl("E", <<>>),
       StructDecl("E", <<EmbeddedField(Basic("F"))>>),
       \* type E struct{ *T }: with type T struct{ *E } the two embed each other
       StructDecl("E", <<EmbeddedField(Pointer(Basic("T")))>>),
       StructDecl("F", <<>>),
       \* type F struct{ *F }
       StructDecl("F", <<EmbeddedField(Pointer(Basic("F")))>>),
       InterfaceDecl("I", <<MethodEntry("m1", IntT)>>, <<>>),
       InterfaceDecl("I", <<MethodEntry("m1", Array(IntT))>>, <<>>),
       InterfaceDecl("J", <<MethodEntry("m2", IntT)>>, <<EmbeddedEntry("I")>>),
       InterfaceDecl("J", <<>>, <<EmbeddedEntry("I")>>),
       MethodDecl(Basic("T"), "m1", IntT),
       MethodDecl(Pointer(Basic("T")), "m1", IntT),
       MethodDecl(Basic("T"), "m1", StrT),
       MethodDecl(Basic("T"), "m1", Array(StrT)),
       MethodDecl(Basic("T"), "m2", IntT),
       MethodDecl(Basic("E"), "m1", IntT),
       MethodDecl(Basic("E"), "m1", StrT),
       MethodDecl(Basic("E"), "m1", Array(StrT)),
       MethodDecl(Basic("E"), "m2", IntT),
       MethodDecl(Basic("F"), "m1", IntT),
       MethodDecl(Basic("F"), "m1", StrT),
       MethodDecl(Basic("F"), "m2", IntT),
       \* an interface as a producer other than the Go front end may build
       \* it: a method entry that carries no signature map
       InterfaceDecl("K", <<[name |-> "m1"]>>, <<>>) >>

\* The declared name a declaration must not share with another one.
DeclKey(kind, attrs) ==
    IF kind = Method THEN <<BaseTypeName(attrs.receiver_type), attrs.name>>
    ELSE IF kind = Import THEN <<kind, attrs.path>>
    ELSE IF kind = Block THEN <<kind>>
    ELSE <<attrs.name>>

\* convertFile, first pass: the methods of each receiver, in source order.
methodsByType(t, typeName) ==
    LET ms == SelectSeq(t, LAMBDA n : n.kind = Method
                                      /\ BaseTypeName(n.attrs.receiver_type) = typeName)
    IN  [k \in 1..Len(ms) |-> [name |-> ms[k].attrs.name, signature |-> ms[k].attrs.signature]]

\* convertFile: every type node of the unit carries the methods attribute
\* listing the methods declared on it (no attribute when there are none).
AttachMethods(t) ==
    [i \in 1..Len(t) |->
        IF t[i].kind = Type /\ Len(methodsByType(t, t[i].attrs.name)) > 0
        THEN [t[i] EXCEPT !.attrs = [k \in (DOMAIN t[i].attrs) \cup {"methods"} |->
                                        IF k = "methods" THEN methodsByType(t, t[i].attrs.name)
                                        ELSE t[i].attrs[k]]]
        ELSE t[i]]

\* Every node the front end emits carries the file it came from.
InFile(attrs) ==
    [k \in (DOMAIN attrs) \cup {"file_path"} |-> IF k = "file_path" THEN "f.go" ELSE attrs[k]]

\* A choice of map iteration order for each type node of the tree: every
\* analyzeType call ranges over graph.Nodes.
Flips(t) == {f \in [1..Len(t) -> BOOLEAN] : \A i \in 1..Len(t) : t[i].kind # Type => ~f[i]}

InitSatisfy ==
    /\ graph = NewGraph
    /\ cycleRes = NoRes
    /\ prevCycleRes = NoRes
    /\ indRes = NoRes
    /\ extRes = NoRes
    /\ tree = <<NewBaseNode(Module, 0, InFile([package_name |-> "p"]))>>
    /\ built = 0
    /\ analysis = NoRes
    /\ goAnalysis = NoRes
    /\ runs = 0
    /\ merges = 0
    /\ cursor = 0
    /\ analyzeRes = NoRes
    /\ otherAnalyzer = NoRes
    /\ metrics = NoRes

\* The front end converts the next declaration it keeps.
UAddDecl ==
    /\ ~analysis.called
    /\ ~analyzeRes.called
    /\ Len(tree) <= MaxDecls
    /\ \E d \in (cursor + 1)..Len(DeclPool) :
          /\ \A i \in 2..Len(tree) :
                DeclKey(tree[i].kind, tree[i].attrs) # DeclKey(DeclPool[d].kind, DeclPool[d].attrs)
          /\ tree' = AttachMethods(AddChild(tree, 1, DeclPool[d].kind, InFile(DeclPool[d].attrs)))
          /\ cursor' = d
    /\ UNCHANGED <<metrics, depVars, built, analysis, goAnalysis, runs, merges, graphVars>>

\* The structure analyzer's Analyze(tree)
UAnalyze ==
    /\ ~analysis.called
    /\ analysis' = Called(StructureAnalyze(tree, 1))
    /\ tree' = TreeAfterAnalyze(tree, analysis')
    /\ runs' = runs + 1
    /\ UNCHANGED <<metrics, depVars, built, goAnalysis, merges, cursor, graphVars>>

\* The dependency analyzer's Analyze(tree) on the same unit
UAnalyzeDependency ==
    /\ ~analyzeRes.called
    /\ \E flips \in Flips(tree) :
          LET r == DependencyAnalyze(tree, flips)
          IN  /\ graph' = r.graph
              /\ analyzeRes' = [called |-> TRUE, err |-> r.err, crash |-> r.crash]
    /\ runs' = runs + 1
    /\ UNCHANGED <<metrics, cycleRes, prevCycleRes, indRes, extRes, otherAnalyzer,
                   tree, built, analysis, goAnalysis, merges, cursor>>

NextSatisfy == UAddDecl \/ UAnalyze \/ UAnalyzeDependency

SpecSatisfy == InitSatisfy /\ [][NextSatisfy]_vars

(***************************************************************************)
(* SpecDependency: two dependency analyzers.  The front end emits          *)
(* translation units (a Module root, declarations taken in order from      *)
(* DepPool, some of them inside a Block group); either analyzer analyses   *)
(* the current unit, and the first merges the second into itself.  graph   *)
(* is the first analyzer's graph.                                          *)
(***************************************************************************)
MaxUnits == 2       \* translation units
MaxDepDecls == 3    \* declarations of a unit
MaxDepRuns == 2     \* Analyze calls
MaxDepMerges == 2   \* Merge calls

Field(name, type) == [name |-> name, type |-> type, embedded |-> FALSE]

\* convertFunction: a function taking one parameter, its body referring to
\* the given types and packages
FuncDecl(name, param, refs) ==
    [kind |-> Function,
     attrs |-> [name |-> name, signature |-> Sig(param),
                body |-> <<[references |-> [k \in 1..Len(refs) |-> [type |-> refs[k]]]]>>]]

DepPool ==
    << InterfaceDecl("I", <<MethodEntry("m1", IntT)>>, <<>>),
       StructDecl("T", <<Field("a", Basic("E")), Field("b", Pointer(Basic("E")))>>),
       StructDecl("T", <<EmbeddedField(Basic("E"))>>),
       StructDecl("E", <<>>),
       MethodDecl(Basic("T"), "m1", IntT),
       MethodDecl(Basic("E"), "m1", IntT),
       FuncDecl("f", Basic("E"), <<Basic("T"), [Kind |-> "package", Name |-> "lib"]>>),
       [kind |-> Import, attrs |-> [path |-> "lib"]],
       [kind |-> Variable, attrs |-> [name |-> "v", type |-> Basic("E")]],
       InterfaceDecl("J", <<MethodEntry("m2", IntT)>>, <<EmbeddedEntry("I")>>),
       [kind |-> Block, attrs |-> <<>>] >>

\* No analyzer has panicked: the process is still running.
Alive ==
    /\ analyzeRes.called => analyzeRes.crash = ""
    /\ otherAnalyzer.called => otherAnalyzer.crash = ""

InitDependency ==
    /\ graph = NewGraph
    /\ cycleRes = NoRes
    /\ prevCycleRes = NoRes
    /\ indRes = NoRes
    /\ extRes = NoRes
    /\ tree = <<>>
    /\ built = 0
    /\ analysis = NoRes
    /\ goAnalysis = NoRes
    /\ runs = 0
    /\ merges = 0
    /\ cursor = 0
    /\ analyzeRes = NoRes
    /\ otherAnalyzer = NoRes
    /\ metrics = NoRes

\* The root attributes of the n-th unit: package p, the package that DepPool
\* imports (second unit only: either analyzer may take either unit, so the
\* other order is the same pair), or a root without package_name.
UnitRoots(n) ==
    {[package_name |-> "p"], <<>>} \cup (IF n > 1 THEN {[package_name |-> "lib"]} ELSE {})

\* convertFile: the Module root of the next unit; a root without
\* package_name is a tree that did not come from a file.
DNewTree ==
    /\ Alive
    /\ built < MaxUnits
    /\ tree = <<>> \/ runs >= built
    /\ \E attrs \in UnitRoots(built + 1) :
          tree' = <<NewBaseNode(Module, 0, InFile(attrs))>>
    /\ built' = built + 1
    /\ cursor' = 0
    /\ UNCHANGED <<metrics, graphVars, depVars, analysis, goAnalysis, runs, merges>>

\* The front end converts the next declaration it keeps, at top level or
\* inside a group.
DAddDecl ==
    /\ Alive
    /\ tree # <<>>
    /\ runs < built
    /\ Len(tree) <= MaxDepDecls
    /\ \E d \in (cursor + 1)..Len(DepPool), parent \in 1..Len(tree) :
          /\ tree[parent].kind \in {Module, Block}
          /\ \A i \in 2..Len(tree) :
                DeclKey(tree[i].kind, tree[i].attrs) # DeclKey(DepPool[d].kind, DepPool[d].attrs)
          /\ tree' = AttachMethods(AddChild(tree, parent, DepPool[d].kind, InFile(DepPool[d].attrs)))
          /\ cursor' = d
    /\ UNCHANGED <<metrics, graphVars, depVars, built, analysis, goAnalysis, runs, merges>>

\* a.Analyze(tree)
DAnalyze ==
    /\ Alive
    /\ tree # <<>>
    /\ runs < MaxDepRuns
    /\ \E flips \in Flips(tree) :
          LET r == DependencyAnalyze(tree, flips)
          IN  /\ graph' = r.graph
              /\ analyzeRes' = [called |-> TRUE, err |-> r.err, crash |-> r.crash]
    /\ runs' = runs + 1
    /\ UNCHANGED <<metrics, cycleRes, prevCycleRes, indRes, extRes, otherAnalyzer,
                   tree, built, analysis, goAnalysis, merges, cursor>>

\* other.Analyze(tree)
DAnalyzeOther ==
    /\ Alive
    /\ tree # <<>>
    /\ runs < MaxDepRuns
    /\ \E flips \in Flips(tree) :
          LET r == DependencyAnalyze(tree, flips)
          IN  otherAnalyzer' = [called |-> TRUE, err |-> r.err, crash |-> r.crash, graph |-> r.graph]
    /\ runs' = runs + 1
    /\ UNCHANGED <<metrics, graphVars, analyzeRes, tree, built, analysis, goAnalysis, merges, cursor>>

\* a.Merge(other)
DMerge ==
    /\ Alive
    /\ otherAnalyzer.called
    /\ merges < MaxDepMerges
    /\ graph' = DependencyMerge(graph, otherAnalyzer.graph)
    /\ merges' = merges + 1
    /\ UNCHANGED <<metrics, cycleRes, prevCycleRes, indRes, extRes, depVars,
                   tree, built, analysis, goAnalysis, runs, cursor>>

NextDependency == DNewTree \/ DAddDecl \/ DAnalyze \/ DAnalyzeOther \/ DMerge

SpecDependency == InitDependency /\ [][NextDependency]_vars

(***************************************************************************)
(* MetricsCollector.  SpecMetrics hands CollectMetrics a Structure whose   *)
(* contains relationships form a containment tree under the root package   *)
(* (element 1), listed in any order.                                       *)
(***************************************************************************)
MaxMetricElems == 4   \* Elements of a Structure handed to CollectMetrics

\* The sum of f over the keys in S.
RECURSIVE SumOver(_, _)
SumOver(f, S) ==
    IF S = {} THEN 0
    ELSE LET x == CHOOSE y \in S : TRUE IN f[x] + SumOver(f, S \ {x})

\* calculateComplexityMetrics: one pass over the relationship list fills the
\* maps depths and children (a missing key reads as 0), then the maxima and
\* the integer averages over the keys of each map.  A metric that is not
\* stored reads as 0.
calculateComplexityMetrics(structure) ==
    LET rels == structure.Relationships
        at(m, key) == IF key \in DOMAIN m THEN m[key] ELSE 0
        put(m, key, v) == [x \in (DOMAIN m) \cup {key} |-> IF x = key THEN v ELSE m[x]]
        depths[k \in 0..Len(rels)] ==
            IF k = 0 THEN <<>>
            ELSE IF rels[k].Type = RelationContains
            THEN put(depths[k - 1], rels[k].Target, at(depths[k - 1], rels[k].Source) + 1)
            ELSE depths[k - 1]
        children[k \in 0..Len(rels)] ==
            IF k = 0 THEN <<>>
            ELSE IF rels[k].Type = RelationContains
            THEN put(children[k - 1], rels[k].Source, at(children[k - 1], rels[k].Source) + 1)
            ELSE children[k - 1]
        maxOf(m) == IF DOMAIN m = {} THEN 0
                    ELSE CHOOSE v \in {m[x] : x \in DOMAIN m} : \A x \in DOMAIN m : m[x] <= v
        avgOf(m) == IF DOMAIN m = {} THEN 0
                    ELSE SumOver(m, DOMAIN m) \div Cardinality(DOMAIN m)
        Result(d, c) == [max_depth |-> maxOf(d), avg_depth |-> avgOf(d),
                         max_children |-> maxOf(c), avg_children |-> avgOf(c)]
    IN  Result(depths[Len(rels)], children[Len(rels)])

\* The Structures of n Elements: a root package, declarations below it, and
\* one contains relationship per declaration, in the order given by order.
MetricStructure(n, parent, order) ==
    [called |-> TRUE, err |-> FALSE, crash |-> "",
     Elements |-> [i \in 1..n |-> [ptr |-> <<1, i>>,
                                   Type |-> IF i = 1 THEN ElementPackage ELSE ElementTypeDecl,
                                   Name |-> IF i = 1 THEN "p" ELSE "T",
                                   Attributes |-> <<>>]],
     Relationships |-> [k \in 1..(n - 1) |->
                           Relationship(RelationContains, <<1, parent[order[k]]>>, <<1, order[k]>>)]]

InitMetrics ==
    /\ graph = NewGraph
    /\ cycleRes = NoRes
    /\ prevCycleRes = NoRes
    /\ indRes = NoRes
    /\ extRes = NoRes
    /\ tree = <<>>
    /\ built = 0
    /\ \E n \in 1..MaxMetricElems :
       \E parent \in [2..n -> 1..n] :
       \E order \in Perms(2..n) :
          \* parent[i] contains Element i and every Element is reached from 1
          /\ LET up[k \in 0..n] == [i \in 1..n |->
                      IF i = 1 THEN 1 ELSE IF k = 0 THEN i ELSE up[k - 1][parent[i]]]
             IN  \A i \in 2..n : parent[i] # i /\ up[n][i] = 1
          /\ analysis = MetricStructure(n, parent, order)
    /\ goAnalysis = NoRes
    /\ runs = 0
    /\ merges = 0
    /\ cursor = 0
    /\ analyzeRes = NoRes
    /\ otherAnalyzer = NoRes
    /\ metrics = NoRes

\* collector.CollectMetrics(structure)
MCollectMetrics ==
    /\ ~metrics.called
    /\ metrics' = [called |-> TRUE] @@ calculateComplexityMetrics(analysis)
    /\ UNCHANGED <<graphVars, depVars, tree, built, analysis, goAnalysis, runs, merges, cursor>>

NextMetrics == MCollectMetrics

SpecMetrics == InitMetrics /\ [][NextMetrics]_vars

(***************************************************************************)
(* Properties of the structure builder.                                    *)
(***************************************************************************)
\* No (kind, source, target) triple occurs twice in the relationship list.
NoDuplicateRelationship(an) ==
    an.called =>
        \A i \in 1..Len(an.Relationships), j \in 1..Len(an.Relationships) :
            (/\ an.Relationships[i].Type = an.Relationships[j].Type
             /\ an.Relationships[i].Source = an.Relationships[j].Source
             /\ an.Relationships[i].Target = an.Relationships[j].Target) => i = j

\* C1: after any sequence of structure Analyze and Merge operations the
\* relationship list holds at most one Relationship per (kind, source,
\* target) triple, also after merging the same donor into the base twice.
C1_RelationshipsUnique ==
    NoDuplicateRelationship(analysis) /\ NoDuplicateRelationship(goAnalysis)

\* The indices of the contains relationships that target Element e.
ContainsOf(an, e) ==
    {i \in 1..Len(an.Relationships) :
        an.Relationships[i].Type = RelationContains /\ an.Relationships[i].Target = e.ptr}

\* C3: after Analyze of a tree rooted at a package/module node every
\* non-package Element is the target of exactly one contains relationship,
\* and its source is the package Element, also for declarations nested
\* under Block nodes or under other declarations.
C3_ContainedOnceByPackage ==
    (analysis.called /\ analysis.crash = "") =>
        \A k \in 1..Len(analysis.Elements) :
            analysis.Elements[k].Type # ElementPackage =>
                /\ Cardinality(ContainsOf(analysis, analysis.Elements[k])) = 1
                /\ \A i \in ContainsOf(analysis, analysis.Elements[k]) :
                      analysis.Relationships[i].Source = analysis.Elements[1].ptr

\* Module > Type > Block > Function: the function is nested under a Block
\* that is nested under a type declaration, and Analyze has returned.
C3_Witness ==
    /\ Len(tree) = 4
    /\ tree[2].kind = Type /\ tree[2].parent = 1
    /\ tree[3].kind = Block /\ tree[3].parent = 2
    /\ tree[4].kind = Function /\ tree[4].parent = 3
    /\ analysis.called
    /\ Len(analysis.Elements) = 3
    /\ analysis.Elements[1].Type = ElementPackage
    /\ Len(analysis.Relationships) = 2

(***************************************************************************)
(* Properties of structural satisfaction.  The method sets below are the   *)
(* ones the specification describes, computed from the Elements.           *)
(***************************************************************************)
ElementsOf(an, elemType) == {an.Elements[k] : k \in {j \in 1..Len(an.Elements) : an.Elements[j].Type = elemType}}

\* The methods declared with receiver typeName or *typeName.
DeclaredMethodSet(an, typeName) ==
    {[name |-> m.Name, signature |-> m.Attributes.signature] :
        m \in {x \in ElementsOf(an, ElementMethod) :
                  /\ Has(x.Attributes, "receiver_type")
                  /\ BaseTypeName(x.Attributes.receiver_type) = typeName
                  /\ Has(x.Attributes, "signature")}}

\* The names of the types that the types named in S embed, by value or by pointer.
EmbeddedNames(an, S) ==
    UNION {{BaseTypeName(EmbeddedFields(e)[k].type) : k \in 1..Len(EmbeddedFields(e))} :
              e \in {x \in ElementsOf(an, ElementTypeDecl) : x.Name \in S}}

RECURSIVE EmbeddingClosure(_, _)
EmbeddingClosure(an, S) ==
    IF EmbeddedNames(an, S) \subseteq S THEN S
    ELSE EmbeddingClosure(an, S \cup EmbeddedNames(an, S))

\* The full method set of type T: its own methods and those of every type
\* it embeds, at any depth.
FullMethodSet(an, T) ==
    UNION {DeclaredMethodSet(an, n) : n \in EmbeddingClosure(an, {T.Name})}

\* The named methods an interface Element lists itself.
OwnMethods(I) ==
    IF Has(I.Attributes, "methods")
    THEN {I.Attributes.methods[k] : k \in {j \in 1..Len(I.Attributes.methods) :
                                              Has(I.Attributes.methods[j], "name")}}
    ELSE {}

\* The names of the interfaces that the interfaces named in S embed.
EmbeddedInterfaceNames(an, S) ==
    UNION {{EmbeddedTypes(e)[k].Name : k \in 1..Len(EmbeddedTypes(e))} :
              e \in {x \in ElementsOf(an, ElementInterface) : x.Name \in S}}

RECURSIVE InterfaceClosure(_, _)
InterfaceClosure(an, S) ==
    IF EmbeddedInterfaceNames(an, S) \subseteq S THEN S
    ELSE InterfaceClosure(an, S \cup EmbeddedInterfaceNames(an, S))

\* The full method set of interface I: own methods plus, recursively, the
\* methods of the interfaces named in its embedded attribute.
FullInterfaceMethods(an, I) ==
    UNION {OwnMethods(e) : e \in {x \in ElementsOf(an, ElementInterface) :
                                     x.Name \in InterfaceClosure(an, {I.Name})}}

NamesOf(an, elemType) == {e.Name : e \in ElementsOf(an, elemType)}

\* Every type T embeds, directly or not, is declared in the analysed unit.
TypeResolved(an, T) == EmbeddingClosure(an, {T.Name}) \subseteq NamesOf(an, ElementTypeDecl)

\* Every interface I embeds, directly or not, is declared in the analysed unit.
InterfaceResolved(an, I) == InterfaceClosure(an, {I.Name}) \subseteq NamesOf(an, ElementInterface)

\* Method m is matched by name and by equal parameter and return type lists.
Matched(m, methodSet) ==
    \E tm \in methodSet :
        /\ tm.name = m.name
        /\ tm.signature.params = m.signature.params
        /\ tm.signature.returns = m.signature.returns

Implements(an, T, I) ==
    \E i \in 1..Len(an.Relationships) :
        /\ an.Relationships[i].Type = RelationImplements
        /\ an.Relationships[i].Source = T.ptr
        /\ an.Relationships[i].Target = I.ptr

\* C4: a type T (whose embedded types are declared in the unit) gets an
\* implements relationship to an interface I (with methods of its own and
\* no embedded interface) exactly when every method
\* of I is matched, by name and by equal parameter and return type lists,
\* by a method of T's full method set, which includes the methods of the
\* types T embeds by value or by pointer at any depth; a same-named method
\* that differs in a parameter type gives no implements relationship.
C4_SatisfactionSignatureExact ==
    (analysis.called /\ analysis.crash = "") =>
        \A T \in ElementsOf(analysis, ElementTypeDecl), I \in ElementsOf(analysis, ElementInterface) :
            (EmbeddedTypes(I) = <<>> /\ OwnMethods(I) # {} /\ TypeResolved(analysis, T)) =>
                (Implements(analysis, T, I) <=>
                    \A m \in OwnMethods(I) : Matched(m, FullMethodSet(analysis, T)))

\* C5: for an interface I that embeds interfaces declared in the unit, the
\* method set used by
\* the satisfaction check is I's own methods plus, recursively, those of
\* the interfaces in its embedded attribute: T implements I exactly when T
\* provides all of them.
C5_EmbeddedInterfaceMethods ==
    (analysis.called /\ analysis.crash = "") =>
        \A T \in ElementsOf(analysis, ElementTypeDecl), I \in ElementsOf(analysis, ElementInterface) :
            (/\ EmbeddedTypes(I) # <<>>
             /\ InterfaceResolved(analysis, I)
             /\ FullInterfaceMethods(analysis, I) # {}
             /\ TypeResolved(analysis, T)) =>
                (Implements(analysis, T, I) <=>
                    \A m \in FullInterfaceMethods(analysis, I) : Matched(m, FullMethodSet(analysis, T)))

(***************************************************************************)
(* Properties of the dependency graph builder.                             *)
(***************************************************************************)
NoDuplicateDependency(g) ==
    \A i \in 1..Len(g.Dependencies), j \in 1..Len(g.Dependencies) :
        (/\ g.Dependencies[i].From = g.Dependencies[j].From
         /\ g.Dependencies[i].To = g.Dependencies[j].To
         /\ g.Dependencies[i].Type = g.Dependencies[j].Type) => i = j

\* C2: after any sequence of dependency Analyze and Merge operations the
\* graph holds at most one Dependency per (From, To, Type) triple.
C2_DependenciesUnique ==
    /\ NoDuplicateDependency(graph)
    /\ otherAnalyzer.called => NoDuplicateDependency(otherAnalyzer.graph)

\* The ids that are nodes of the receiver or of the donor before a Merge.
UnionIds == (DOMAIN graph.Nodes) \cup (DOMAIN otherAnalyzer.graph.Nodes)

\* The donor edge has an end that is a node of neither graph.
Unanchored(d) == d.From \notin UnionIds \/ d.To \notin UnionIds

\* C11 (as stated): merging a donor that has an edge X->Y into a receiver
\* that has neither X nor Y as a node leaves the receiver's edge list
\* unchanged.
C11_MergeDropRule ==
    [][(merges' = merges + 1
        /\ \E k \in 1..Len(otherAnalyzer.graph.Dependencies) :
              /\ otherAnalyzer.graph.Dependencies[k].From \notin DOMAIN graph.Nodes
              /\ otherAnalyzer.graph.Dependencies[k].To \notin DOMAIN graph.Nodes)
       => graph'.Dependencies = graph.Dependencies]_vars

\* C11 (amended): Merge keeps the receiver's edges, in order, and adds no
\* edge with an end that is a node of neither the receiver nor the donor;
\* when every donor edge is such an edge the receiver's edge list is
\* unchanged.
C11_MergeDropsUnanchored ==
    [][merges' = merges + 1
       => /\ Len(graph'.Dependencies) >= Len(graph.Dependencies)
          /\ SubSeq(graph'.Dependencies, 1, Len(graph.Dependencies)) = graph.Dependencies
          /\ \A i \in (Len(graph.Dependencies) + 1)..Len(graph'.Dependencies) :
                ~Unanchored(graph'.Dependencies[i])
          /\ (\A k \in 1..Len(otherAnalyzer.graph.Dependencies) :
                 Unanchored(otherAnalyzer.graph.Dependencies[k]))
             => graph'.Dependencies = graph.Dependencies]_vars

\* A Merge has run whose donor holds an edge to an id that is a node of
\* neither graph, and the receiver does not hold that edge.
C11_Witness ==
    /\ merges > 0
    /\ otherAnalyzer.called
    /\ \E k \in 1..Len(otherAnalyzer.graph.Dependencies) :
          /\ otherAnalyzer.graph.Dependencies[k].To \notin DOMAIN graph.Nodes
          /\ \A i \in 1..Len(graph.Dependencies) :
                graph.Dependencies[i] # otherAnalyzer.graph.Dependencies[k]

\* Both ends of every edge of g are ids of nodes of g.
NoDanglingEdge(g) ==
    \A i \in 1..Len(g.Dependencies) :
        HasNode(g, g.Dependencies[i].From) /\ HasNode(g, g.Dependencies[i].To)

\* C12: in the graph produced by dependency Analyze, and after any later
\* Merge, the from and to of every Dependency are ids of nodes of that graph.
C12_NoDanglingEdges ==
    /\ NoDanglingEdge(graph)
    /\ otherAnalyzer.called => NoDanglingEdge(otherAnalyzer.graph)

\* C13: structure Analyze fails with an error, and returns no Structure
\* Model, when the root of the tree has neither package_name nor name.
C13_NamelessRootFails ==
    [][(runs' = runs + 1 /\ analysis'.called
        /\ ~Has(tree[1].attrs, "package_name") /\ ~Has(tree[1].attrs, "name"))
       => (analysis'.err /\ analysis'.Elements = <<>>)]_vars

\* C14: dependency Analyze of a root without package_name returns an error
\* and leaves the analyzer's graph without nodes and edges, whatever an
\* earlier Analyze on that analyzer had produced.
C14_MissingPackageNameFails ==
    [][(runs' = runs + 1 /\ ~Has(tree[1].attrs, "package_name"))
       => \/ /\ analyzeRes'.called /\ analyzeRes'.err
             /\ graph' = NewGraph
             /\ otherAnalyzer' = otherAnalyzer
          \/ /\ otherAnalyzer'.called /\ otherAnalyzer'.err
             /\ otherAnalyzer'.graph = NewGraph
             /\ graph' = graph /\ analyzeRes' = analyzeRes]_vars

\* The first analyzer has analysed two units, the second one without a
\* package name: its last Analyze failed and its graph is empty.
C14_Witness ==
    /\ built = 2 /\ runs = 2
    /\ ~otherAnalyzer.called
    /\ ~Has(tree[1].attrs, "package_name")
    /\ analyzeRes.called /\ analyzeRes.err
    /\ graph = NewGraph

\* C15: a missing or mistyped attribute never aborts structure pattern
\* detection: Analyze returns a Structure Model without error or panic also
\* when an interface method entry has no signature map.
C15_DetectionNeverAborts ==
    analysis.called => (~analysis.err /\ analysis.crash # "panic")

\* The names of the package Elements of an analysis.
PackageNames(an) ==
    {an.Elements[i].Name : i \in {j \in 1..Len(an.Elements) : an.Elements[j].Type = ElementPackage}}

\* C16: structure Merge(base, donor) appends to base, in donor order, every
\* donor Element except a package Element whose name is that of a package
\* already in base; base's Elements keep their order and identity; all donor
\* Relationships are appended after base's; the donor's lists are unchanged.
C16_StructureMergeAppends ==
    [][merges' = merges + 1
       => /\ goAnalysis'.Elements =
                goAnalysis.Elements \o
                SelectSeq(analysis.Elements,
                          LAMBDA e : ~(e.Type = ElementPackage /\ e.Name \in PackageNames(goAnalysis)))
          /\ goAnalysis'.Relationships = goAnalysis.Relationships \o analysis.Relationships
          /\ analysis' = analysis]_vars

\* A Merge has dropped the donor's package Element (its name was in base)
\* and appended a donor declaration and a donor relationship.
C16_Witness ==
    /\ merges > 0
    /\ analysis.called /\ goAnalysis.called
    /\ \E i \in 1..Len(analysis.Elements) :
          /\ analysis.Elements[i].Type = ElementPackage
          /\ \A j \in 1..Len(goAnalysis.Elements) : goAnalysis.Elements[j] # analysis.Elements[i]
    /\ \E i \in 1..Len(analysis.Elements) :
          /\ analysis.Elements[i].Type # ElementPackage
          /\ \E j \in 1..Len(goAnalysis.Elements) : goAnalysis.Elements[j] = analysis.Elements[i]
    /\ \E i \in 1..Len(analysis.Relationships) :
          \E j \in 1..Len(goAnalysis.Relationships) :
              goAnalysis.Relationships[j] = analysis.Relationships[i]

\* C17: dependency Merge keeps, for every node id of both graphs, the
\* receiver's kind, name and path, makes the external flag the receiver's
\* flag or the donor's, and makes the metadata the union of both key sets
\* with the donor's value for the donor's keys; every id of the donor only
\* becomes a node with the donor's fields; the donor graph is unchanged.
C17_MergeNodeUnion ==
    [][merges' = merges + 1
       => /\ \A id \in (DOMAIN graph.Nodes) \cap (DOMAIN otherAnalyzer.graph.Nodes) :
                /\ id \in DOMAIN graph'.Nodes
                /\ graph'.Nodes[id].Type = graph.Nodes[id].Type
                /\ graph'.Nodes[id].Name = graph.Nodes[id].Name
                /\ graph'.Nodes[id].Path = graph.Nodes[id].Path
                /\ graph'.Nodes[id].IsExternal =
                      (graph.Nodes[id].IsExternal \/ otherAnalyzer.graph.Nodes[id].IsExternal)
                /\ DOMAIN graph'.Nodes[id].Metadata =
                      (DOMAIN graph.Nodes[id].Metadata) \cup (DOMAIN otherAnalyzer.graph.Nodes[id].Metadata)
                /\ \A k \in DOMAIN graph'.Nodes[id].Metadata :
                      graph'.Nodes[id].Metadata[k] =
                         IF k \in DOMAIN otherAnalyzer.graph.Nodes[id].Metadata
                         THEN otherAnalyzer.graph.Nodes[id].Metadata[k]
                         ELSE graph.Nodes[id].Metadata[k]
          /\ \A id \in (DOMAIN otherAnalyzer.graph.Nodes) \ (DOMAIN graph.Nodes) :
                /\ id \in DOMAIN graph'.Nodes
                /\ graph'.Nodes[id] = otherAnalyzer.graph.Nodes[id]
          /\ otherAnalyzer' = otherAnalyzer]_vars

\* A Merge has folded a donor node into a receiver node of the same id whose
\* flag differs from the donor's and has copied in a node of the donor only.
C17_Witness ==
    /\ merges = 1
    /\ otherAnalyzer.called
    /\ \E id \in (DOMAIN graph.Nodes) \cap (DOMAIN otherAnalyzer.graph.Nodes) :
          /\ graph.Nodes[id].IsExternal
          /\ ~otherAnalyzer.graph.Nodes[id].IsExternal
    /\ \E id \in (DOMAIN graph.Nodes) \cap (DOMAIN otherAnalyzer.graph.Nodes) :
          /\ graph.Nodes[id].Type = TypeNode
          /\ graph.Nodes[id] = otherAnalyzer.graph.Nodes[id]

\* C18: dependency Analyze yields a graph Node of kind variable for every
\* Variable node of the tree, at top level or inside a Block (checked for the
\* first Analyze of the analyzer, when it returns no error).
C18_VariableNodes ==
    [][(/\ runs' = runs + 1
        /\ ~analyzeRes.called /\ analyzeRes'.called
        /\ ~analyzeRes'.err /\ analyzeRes'.crash = "")
       => \A i \in 2..Len(tree) :
             (tree[i].kind = Variable /\ Has(tree[i].attrs, "name"))
             => \E id \in DOMAIN graph'.Nodes :
                   /\ graph'.Nodes[id].Type = VariableNode
                   /\ graph'.Nodes[id].Name = tree[i].attrs.name]_vars

\* The ids of the units analysed into g: its module nodes not flagged external.
UnitModules(g) ==
    {id \in DOMAIN g.Nodes : g.Nodes[id].Type = ModuleNode /\ ~g.Nodes[id].IsExternal}

\* C19: an include edge and its target module node are external iff the import
\* path is not the module of an analysed unit: once the graphs of a unit A
\* that imports B and of the unit B are merged, node B is not external and
\* the include edge from A to B is a non-external edge listed among the
\* direct include edges.
C19_ImportOfAnalysedUnitIsInternal ==
    [][merges' = merges + 1
       => \A id \in UnitModules(graph) \cup UnitModules(otherAnalyzer.graph) :
             /\ id \in DOMAIN graph'.Nodes
             /\ ~graph'.Nodes[id].IsExternal
             /\ \A k \in 1..Len(graph'.Dependencies) :
                   (graph'.Dependencies[k].Type = Include /\ graph'.Dependencies[k].To = id)
                   => /\ ~graph'.Dependencies[k].IsExternal
                      /\ \E j \in 1..Len(graph'.DirectDependencies) :
                            graph'.DirectDependencies[j] = graph'.Dependencies[k]]_vars

\* g has a satisfy edge from type T to contract I of package pkgName.
SatisfyEdge(g, pkgName, T, I) ==
    \E k \in 1..Len(g.Dependencies) :
        /\ g.Dependencies[k].Type = Satisfy
        /\ g.Dependencies[k].From = Qualified(pkgName, T.Name)
        /\ g.Dependencies[k].To = Qualified(pkgName, I.Name)

\* C20: for a single unit, dependency Analyze records a satisfy edge from
\* type T to contract I exactly when structure Analyze of the same tree
\* records implements (T, I), whatever the declaration order, the embedding
\* depth, the parameter types and the methods T declares itself.
C20_SatisfyAgreesWithImplements ==
    (/\ analysis.called /\ analysis.crash = "" /\ ~analysis.err
     /\ analyzeRes.called /\ analyzeRes.crash = "" /\ ~analyzeRes.err)
    => \A T \in ElementsOf(analysis, ElementTypeDecl), I \in ElementsOf(analysis, ElementInterface) :
          SatisfyEdge(graph, tree[1].attrs.package_name, T, I) <=> Implements(analysis, T, I)

\* C21: structure Analyze, dependency Analyze and Merge leave the consumed
\* syntax tree unchanged: no node's kind, child list or attribute map (the
\* nested method maps included) is modified.
C21_TreeUnchanged ==
    [][(runs' = runs + 1 \/ merges' = merges + 1) => tree' = tree]_vars

\* Both analyzers have run on a unit in which a type embeds a type with a
\* method and an interface has methods: the embedded type's methods have
\* been tagged with receiver_type_name.
C21_Witness ==
    /\ analysis.called /\ analysis.crash = ""
    /\ analyzeRes.called /\ analyzeRes.crash = ""
    /\ \E I \in ElementsOf(analysis, ElementInterface) : OwnMethods(I) # {}
    /\ \E T \in ElementsOf(analysis, ElementTypeDecl) :
          \E k \in 1..Len(typeMethods(T, analysis, 1).methods) :
              typeMethods(T, analysis, 1).methods[k].receiver_type_name # T.Name
    /\ \A i \in 1..Len(analysis.Elements) :
          analysis.Elements[i].Attributes = tree[analysis.Elements[i].ptr[2]].attrs

\* The pass that produces a relationship kind: 1 the tree walk, then the
\* detectors in the order detectPatterns runs them.
PassOf(relType) ==
    CASE relType = RelationContains -> 1
      [] relType = RelationReferences -> 2
      [] relType = RelationMethodReceiver -> 3
      [] relType = RelationInterfaceEmbeds -> 4
      [] relType = RelationImplements -> 5
      [] relType = RelationEmbeds -> 6

\* C22: in the Relationship list returned by structure Analyze the kinds
\* appear in blocks: contains, references, method-receiver, interface-embeds,
\* implements, embeds; nothing from an earlier pass follows something from a
\* later pass.
C22_RelationshipBlocks ==
    analysis.called =>
        \A i \in 1..Len(analysis.Relationships), j \in 1..Len(analysis.Relationships) :
            i < j => PassOf(analysis.Relationships[i].Type) <= PassOf(analysis.Relationships[j].Type)

\* An analysis whose list holds a relationship of each of the six kinds.
C22_Witness ==
    /\ analysis.called
    /\ \A p \in 1..6 : \E i \in 1..Len(analysis.Relationships) :
          PassOf(analysis.Relationships[i].Type) = p

\* DirectDependencies and ExternalDependencies recomputed from the node and
\* edge sets of g.
IndexesConsistent(g) ==
    /\ g.DirectDependencies =
          SelectSeq(g.Dependencies, LAMBDA d : d.Type = Include /\ ~d.IsExternal)
    /\ g.ExternalDependencies =
          {id \in DOMAIN g.Nodes :
              \E k \in 1..Len(g.Dependencies) :
                  g.Dependencies[k].IsExternal /\ g.Dependencies[k].To = id}

\* C23: after any sequence of AddNode and AddDependency the derived indexes
\* equal what is recomputed from the current nodes and edges, whatever the
\* order in which the nodes and the edges were added.
C23_IndexesConsistent == IndexesConsistent(graph)

\* The containment depth of the Element e of a Structure: 0 when nothing
\* contains it, the depth of its contains source plus 1 otherwise.
RECURSIVE ContainmentDepth(_, _)
ContainmentDepth(an, e) ==
    LET up == {i \in 1..Len(an.Relationships) :
                  an.Relationships[i].Type = RelationContains /\ an.Relationships[i].Target = e}
    IN  IF up = {} THEN 0
        ELSE 1 + ContainmentDepth(an, an.Relationships[CHOOSE i \in up : TRUE].Source)

\* C24: CollectMetrics reports max_depth as the maximum containment depth
\* over the Elements and avg_depth and avg_children as the floor averages
\* over the contained Elements and over the Elements that have children,
\* whatever the order of the contains relationships in the list.
C24_MetricsDepth ==
    metrics.called =>
        LET contained == {analysis.Relationships[i].Target : i \in 1..Len(analysis.Relationships)}
            parents == {analysis.Relationships[i].Source : i \in 1..Len(analysis.Relationships)}
            depth == [e \in contained |-> ContainmentDepth(analysis, e)]
        IN  /\ metrics.max_depth =
                  (IF contained = {} THEN 0
                   ELSE CHOOSE d \in {depth[e] : e \in contained} : \A e \in contained : depth[e] <= d)
            /\ metrics.avg_depth =
                  (IF contained = {} THEN 0 ELSE SumOver(depth, contained) \div Cardinality(contained))
            /\ metrics.avg_children =
                  (IF parents = {} THEN 0 ELSE Len(analysis.Relationships) \div Cardinality(parents))

IsDiamond(g) ==
    \E a \in DOMAIN g.Nodes, b \in DOMAIN g.Nodes,
       c \in DOMAIN g.Nodes, d \in DOMAIN g.Nodes :
        /\ Cardinality({a, b, c, d}) = 4
        /\ EdgePairs(g) = {<<a, b>>, <<a, c>>, <<b, d>>, <<c, d>>}

\* The edges can be ranked so that each leads to a higher rank.
Acyclic(g) ==
    \E rank \in [DOMAIN g.Nodes -> 1..Cardinality(DOMAIN g.Nodes)] :
        \A e \in EdgePairs(g) : rank[e[1]] < rank[e[2]]

\* C25: find_cycles returns no cycle for an acyclic graph (the diamond
\* a->b, a->c, b->d, c->d among them), and every cycle it returns has no
\* repeated node and is a closed walk over existing edges: each consecutive
\* pair of ids, and the last id back to the first, is an edge of the graph.
C25_CyclesAreClosedWalks ==
    cycleRes.called =>
        /\ cycleRes.cycles = <<>> \/ ~Acyclic(graph)
        /\ \A i \in 1..Len(cycleRes.cycles) :
              LET c == cycleRes.cycles[i] IN
              /\ Len(c) > 0
              /\ \A j \in 1..Len(c), k \in 1..Len(c) : j # k => c[j] # c[k]
              /\ \A j \in 1..Len(c) :
                    <<c[j], c[(j % Len(c)) + 1]>> \in EdgePairs(graph)

\* The diamond 1->2, 1->3, 2->4, 3->4 searched from 1: node 4 is completed
\* under 2 and met again from 3, and no cycle is reported.
C25_Witness ==
    /\ cycleRes.called
    /\ cycleRes.start = 1
    /\ Len(graph.Dependencies) = 4
    /\ EdgePairs(graph) = {<<1, 2>>, <<1, 3>>, <<2, 4>>, <<3, 4>>}
    /\ IsDiamond(graph)
    /\ cycleRes.cycles = <<>>
\* Two descriptor lists that differ at some position only below the top:
\* same Kind and Name there, different element, key, value or argument types.
SubstructureDiffers(types1, types2) ==
    /\ Len(types1) = Len(types2)
    /\ \E i \in 1..Len(types1) :
          /\ types1[i] # types2[i]
          /\ types1[i].Kind = types2[i].Kind
          /\ types1[i].Name = types2[i].Name

SameKindPair(sig1, sig2) ==
    \/ SubstructureDiffers(sig1.params, sig2.params)
    \/ SubstructureDiffers(sig1.returns, sig2.returns)

\* C26: signature matching compares Type Descriptors recursively for every
\* kind: when implements(T, I) is recorded, every method of I has a
\* same-named method in T's method set whose parameter and return types do
\* not differ from it in substructure only (the element type of an array or
\* channel, the type arguments of a generic).
C26_SignatureEqualityIsDeep ==
    (analysis.called /\ analysis.crash = "") =>
        \A T \in ElementsOf(analysis, ElementTypeDecl), I \in ElementsOf(analysis, ElementInterface) :
            Implements(analysis, T, I) =>
                \A m \in OwnMethods(I) :
                    \E tm \in FullMethodSet(analysis, T) :
                        /\ tm.name = m.name
                        /\ ~SameKindPair(tm.signature, m.signature)
\* The nodes below and including node i, parents first, children in order.
RECURSIVE PreOrder(_, _), PreOrderAll(_, _, _)
PreOrder(t, i) == <<i>> \o PreOrderAll(t, Children(t, i), 1)

PreOrderAll(t, kids, k) ==
    IF k > Len(kids) THEN <<>>
    ELSE PreOrder(t, kids[k]) \o PreOrderAll(t, kids, k + 1)

\* The nodes of t that are not Blocks, in walk order.
NonBlocks(t) == SelectSeq(PreOrder(t, 1), LAMBDA i : t[i].kind # Block)

\* The nearest ancestor of node i that is not a Block (0 above the root).
RECURSIVE Owner(_, _)
Owner(t, i) ==
    IF t[i].parent = 0 THEN 0
    ELSE IF t[t[i].parent].kind # Block THEN t[i].parent
    ELSE Owner(t, t[i].parent)

\* t without its Blocks: what a Block holds becomes, at the Block's place,
\* a direct child of the nearest node above that is not a Block.
Splice(t) ==
    LET nb == NonBlocks(t)
    IN  [k \in 1..Len(nb) |->
            [t[nb[k]] EXCEPT !.parent = IF Owner(t, nb[k]) = 0 THEN 0
                                        ELSE FirstIndex(Owner(t, nb[k]), nb)]]

\* The analysis of t with every node identity replaced by the identity the
\* same node has in Splice(t).
Respliced(t, an) ==
    LET nb == NonBlocks(t)
        to(ptr) == <<ptr[1], FirstIndex(ptr[2], nb)>>
    IN  [Elements |-> [k \in 1..Len(an.Elements) |->
                          [an.Elements[k] EXCEPT !.ptr = to(@)]],
         Relationships |-> [k \in 1..Len(an.Relationships) |->
                               [an.Relationships[k] EXCEPT !.Source = to(@),
                                                           !.Target = to(@)]]]

\* C27: Block nodes are transparent to structure Analyze: the analysis of a
\* tree has no Element made from a Block, and its Element sequence and its
\* Relationship sequence are those of the analysis of the same tree with
\* the content of every (possibly nested) Block spliced in place as direct
\* children.
C27_BlocksTransparent ==
    [][runs' = runs + 1 =>
          LET spliced == StructureAnalyze(Splice(tree), runs + 1)
              same(a) == /\ a.Elements = spliced.Elements
                         /\ a.Relationships = spliced.Relationships
          IN  /\ analysis'.crash = spliced.crash
              /\ \A k \in 1..Len(analysis'.Elements) :
                    tree[analysis'.Elements[k].ptr[2]].kind # Block
              /\ same(Respliced(tree, analysis'))]_vars

\* A type declared inside a Block inside a Block of the unit has been
\* analysed: the package contains it.
C27_Witness ==
    /\ analysis.called /\ analysis.crash = ""
    /\ runs = 1
    /\ Len(tree) = 4
    /\ tree[2].kind = Block /\ tree[2].parent = 1
    /\ tree[3].kind = Block /\ tree[3].parent = 2
    /\ tree[4].kind = Type /\ tree[4].parent = 3
    /\ Len(analysis.Elements) = 2
    /\ \E k \in 1..Len(analysis.Relationships) :
          analysis.Relationships[k] = Relationship(RelationContains, <<1, 1>>, <<1, 4>>)
\* C28: structure Analyze creates exactly one Element for every node that is
\* not a Block, in walk order; an Import node (a kind outside Package,
\* Module, Type, Function, Method, Interface, Variable, Block) becomes an
\* Element of kind type with the empty name, the package contains it, and
\* the lookup of the empty type name finds such an Element.
C28_UnlistedKindsBecomeTypes ==
    [][runs' = runs + 1 =>
          LET made(k) == analysis'.Elements[k]
              hit(e) == e # Nil /\ tree[e.ptr[2]].kind = Import
          IN  /\ analysis'.crash = ""
              /\ Len(analysis'.Elements) = Len(NonBlocks(tree))
              /\ \A k \in 1..Len(analysis'.Elements) :
                    /\ made(k).ptr = <<runs + 1, NonBlocks(tree)[k]>>
                    /\ tree[made(k).ptr[2]].kind = Import =>
                          /\ made(k).Type = ElementTypeDecl
                          /\ made(k).Name = ""
                          /\ hasRelationship(analysis',
                                 Relationship(RelationContains,
                                              findPackage(analysis').ptr, made(k).ptr))
                          /\ hit(findTypeByName(analysis', ""))]_vars

\* A unit whose only child is an import has been analysed: the import is
\* the Element of kind type with the empty name, contained by the package.
C28_Witness ==
    /\ analysis.called /\ analysis.crash = ""
    /\ runs = 1
    /\ Len(tree) = 2
    /\ tree[2].kind = Import
    /\ Len(analysis.Elements) = 2
    /\ analysis.Elements[2].Type = ElementTypeDecl
    /\ analysis.Elements[2].Name = ""
    /\ analysis.Elements[2].ptr = <<1, 2>>
    /\ analysis.Relationships = <<Relationship(RelationContains, <<1, 1>>, <<1, 2>>)>>
\* C29: structure Analyze terminates on every finite tree: computing a
\* method set never recurses without bound, also when types embed each
\* other cyclically or a type embeds a pointer to itself.
C29_AnalyzeTerminates ==
    analysis.called => analysis.crash # "overflow"
\* The identities of the Elements an analysis holds.
ElementPtrs(an) == {an.Elements[i].ptr : i \in 1..Len(an.Elements)}

\* C30: after structure Merge(base, donor) every Relationship held by base
\* has its source and its target among base's Elements, also when the
\* donor's package Element was dropped for a package of the same name.
C30_MergedRelationshipsClosed ==
    (goAnalysis.called /\ merges > 0) =>
        \A k \in 1..Len(goAnalysis.Relationships) :
            /\ goAnalysis.Relationships[k].Source \in ElementPtrs(goAnalysis)
            /\ goAnalysis.Relationships[k].Target \in ElementPtrs(goAnalysis)
====
